---- MODULE Spec2Model ----
(***************************************************************************)
(* Model of the reactive core of packages/react-mvvm: the Command          *)
(* (status/result variant) built on ChangeNotifier and Result.             *)
(*                                                                         *)
(* One step of the model is one synchronous run of the JavaScript event    *)
(* loop's job: a public method called by a client up to its return (for    *)
(* the async method execute: up to its first await or its return), the     *)
(* settlement of the promise returned by an asynchronous action, or the    *)
(* microtask that resumes execute after its await.                         *)
(*                                                                         *)
(* A listener reads the command's status and result when it is invoked     *)
(* and returns, or (the functions in throwers) throws; listeners do not    *)
(* call back into the command.                                             *)
(*                                                                         *)
(* SpecNotifier looks at the ChangeNotifier part of the same object at a   *)
(* finer grain: notifyListeners() is split at the points where it hands    *)
(* control to a listener, and a listener body may call addListener,        *)
(* removeListener, dispose and notifyListeners before it returns.          *)
(*                                                                         *)
(* SpecObservable is an Observable: a value and a private ChangeNotifier   *)
(* (the same notifier variables), reached only through subscribe, the      *)
(* unsubscribe functions it returns and the value setter; a subscriber     *)
(* body may call these before it returns.                                  *)
(*                                                                         *)
(* SpecListenable and SpecViewModel are a React component that calls       *)
(* useListenable, resp. useViewModel: renders, effects and cleanups over   *)
(* notifiers of their own. SpecFlags is the Command variant with the       *)
(* fields running, completed and error. SpecDispatch runs notifyListeners  *)
(* as the source has it and as a loop over a snapshot of the Map, on the   *)
(* same Map and listener bodies. SpecLive is Spec with the microtask queue *)
(* drained. SpecResults hands values to the predicates of Results.         *)
(***************************************************************************)
EXTENDS Integers, Sequences, FiniteSets, TLC

\* Bounds of the model.
MaxOps == 5          \* calls a client makes on the command in one behaviour

\* The listener functions a client may register (compared by identity).
ListenerFns == {"l1", "l2"}

\* The listenables a component is rendered with, and no listenable.
Listenables == {"first", "second"}
NoListenable == "none"

\* A ChangeNotifier after construction.
NewNotifier == [listeners |-> <<>>, isDisposed |-> FALSE]

\* The component before its first render and after unmount. bound is the
\* listenable of the latest render, dep the one the effect in force was run
\* with; redraws counts the calls of the redraw callback and effects the
\* runs of the effect.
Unmounted ==
    [mounted |-> FALSE, bound |-> NoListenable, dep |-> NoListenable,
     redraws |-> 0, effects |-> 0]

\* The component of useViewModel before its first render. phase is where the
\* component is in its life, strict whether React runs it in strict mode,
\* ref the instance in ref.current (0 for null), shown the instance the
\* latest call of the hook returned, live the instance the effect in force
\* captured as newRef, pending whether a redraw was asked for and has not
\* rendered yet, remounted whether strict mode has replayed the effect.
NoComponent ==
    [phase |-> "none", strict |-> FALSE, ref |-> 0, shown |-> 0, live |-> 0,
     pending |-> FALSE, remounted |-> FALSE]

\* The fields of the three-flag Command after construction and after
\* clear(): #running, #completed, #error.
NoError == "null"
Cleared == [running |-> FALSE, completed |-> FALSE, error |-> NoError]

\* The listener functions of the dispatch comparison, and how many calls a
\* listener body makes at most and how many invocations a pass is followed.
DispatchFns == {"l1", "l2"}
MaxCalls == 2
MaxInvocations == 6

\* The values assigned to an Observable<number>, written as numerals.
NaN == "NaN"
Values == {"0", "1", NaN}

\* The listener functions given to Observable.subscribe.
RawListeners == {"l1"}

\* The listener functions of the notifier specification.
NotifierFns == ListenerFns \cup {"l3"}

\* ------------------------------------------------------------------ Result

\* The absent result (null).
NULL == [null |-> TRUE]

\* Results.Success(value): a frozen { ok: true, value }.
Success(value) == [ok |-> TRUE, value |-> value]

\* Results.Failure(error): a frozen { ok: false, error }.
\* (Faulty variant: a new error object takes the place of the one given.)
Failure_wrapped(error) == [ok |-> FALSE, error |-> "Error(wrapped)"]

Failure(error) == [ok |-> FALSE, error |-> error]

\* What one invocation of the wrapped action does: return a Result, throw
\* synchronously (here an Error instance), or return a promise that is still
\* pending.
Behaviours ==
    { [kind |-> "return", res |-> Success("ok")],
      [kind |-> "throw", err |-> "Error(boom)"],
      [kind |-> "promise"] }

\* How the promise of an asynchronous action settles: it resolves with a
\* Result (here a Failure the action built itself) or rejects (here with a
\* plain string, which is not an Error instance).
Settlements ==
    { [kind |-> "resolve", res |-> Failure("Error(nope)")],
      [kind |-> "reject", err |-> "string error"] }

NoOutcome == [kind |-> "none"]

\* ------------------------------------------------------ Results predicates

\* The property names the predicates look at.
PropNames == {"ok", "value", "error"}

\* The values a property may hold, written as JavaScript literals: the two
\* booleans, the string "true", the number 1, undefined and an Error object.
PropValues == {"true", "false", "'true'", "1", "undefined", "Error"}

\* typeof of a property value.
TypeOf(p) ==
    CASE p \in {"true", "false"} -> "boolean"
      [] p = "'true'" -> "string"
      [] p = "1" -> "number"
      [] p = "undefined" -> "undefined"
      [] OTHER -> "object"

\* The property bags: every subset of the property names, with every value.
PropBags == UNION { [K -> PropValues] : K \in SUBSET PropNames }

\* A JavaScript value as the predicates see it: its typeof, whether it is
\* null, and the properties the in operator finds on it.
JsValue(t, n, ps) == [typeof |-> t, isNull |-> n, props |-> ps]

Undefined == JsValue("undefined", FALSE, <<>>)

\* The values handed to the predicates: undefined, null, a number, a string,
\* a boolean, and the objects and the functions with every property bag.
Subjects ==
    { JsValue(t, FALSE, <<>>) : t \in {"undefined", "number", "string", "boolean"} }
        \cup { JsValue("object", TRUE, <<>>) }
        \cup { JsValue(t, FALSE, ps) : t \in {"object", "function"}, ps \in PropBags }

\* name in v, and v[name].
In(name, v) == name \in DOMAIN v.props
Get(v, name) == IF In(name, v) THEN v.props[name] ELSE "undefined"

\* An object literal built by Results.Success or Results.Failure, as a value
\* the predicates can be handed: its own properties are the fields of the
\* record, ok holding a boolean.
Literal(r) ==
    JsValue("object", FALSE,
            [k \in DOMAIN r |->
                IF k = "ok" THEN (IF r.ok THEN "true" ELSE "false") ELSE r[k]])

\* Results.#assertIsResult(value): TRUE when it throws the TypeError.
assertIsResult(v) ==
    IF v.typeof # "object" THEN TRUE
    ELSE IF v.isNull THEN TRUE
    ELSE IF ~In("ok", v) THEN TRUE
    ELSE TypeOf(Get(v, "ok")) # "boolean"

\* Results.isResult(value): true unless the assertion throws.
isResult(v) == ~assertIsResult(v)

\* Results.isSuccess(value): isResult(value) && value.ok && "value" in value.
\* (Faulty variant: the value property is not looked for.)
isSuccess_okOnly(v) ==
    IF ~isResult(v) THEN FALSE ELSE Get(v, "ok") = "true"

isSuccess(v) ==
    IF ~isResult(v) THEN FALSE
    ELSE IF Get(v, "ok") # "true" THEN FALSE
    ELSE In("value", v)

\* Results.isFailure(value): isResult(value) && !value.ok && "error" in value.
isFailure(v) ==
    IF ~isResult(v) THEN FALSE
    ELSE IF Get(v, "ok") = "true" THEN FALSE
    ELSE In("error", v)

\* A value the predicates have not been asked about; made tells which
\* constructor of Results built it, if one did.
Probe(v, by) == [subject |-> v, made |-> by, asked |-> FALSE, answers |-> {}]

NoProbe == Probe(Undefined, "none")

VARIABLES
    status,      \* Command.#status
    result,      \* Command.#result
    listeners,   \* ChangeNotifier.#listeners: the Map, in insertion order
    isDisposed,  \* ChangeNotifier.#isDisposed
    throwers,    \* the listener functions whose body throws when invoked
    calls,       \* one record per execute() call, in call order
    microtasks,  \* the continuations of execute() waiting to resume, FIFO
    runCount,    \* how many times the wrapped action has been invoked
    ops,         \* how many calls the clients have made on the command
    log,         \* per listener function, what it observed at each invocation
    stack,       \* the notifyListeners() calls in progress, innermost last
    invoked,     \* history: the listener invocations, in order
    passes,      \* history: one record per notifyListeners() pass
    inert,       \* history: the methods called on the disposed notifier
    spent,       \* history: the once listeners invoked since they registered
    value,       \* Observable.#value
    subs,        \* per subscribe() call, in order, the listener it was given
    delivered,   \* history: what the subscribed listeners were called with
    sets,        \* history: one record per assignment to Observable.value
    unsubscribed, \* history: per subscribe() call, the calls of its unsubscribe
    notifiers,   \* useListenable: the listenables a component is given
    hook,        \* useListenable: the component that calls the hook
    instances,   \* useViewModel: the view-models constructed so far
    vm,          \* useViewModel: the component that calls the hook
    flags,       \* three-flag Command: #running, #completed, #error
    runs,        \* three-flag Command: history, one record per execute() call
    snapshots,   \* three-flag Command: history, the fields at each notification
    registry,    \* dispatch comparison: the Map when notifyListeners is called
    bodies,      \* dispatch comparison: per listener, the calls its body makes
    compared,    \* dispatch comparison: what the two dispatch loops did
    probed       \* Results predicates: a value and what the predicates said

vars == <<status, result, listeners, isDisposed, throwers, calls, microtasks,
          runCount, ops, log, stack, invoked, passes, inert, spent,
          value, subs, delivered, sets, unsubscribed, notifiers, hook,
          instances, vm, flags, runs, snapshots, registry, bodies, compared,
          probed>>

\* The variables only the notifier specification changes.
passVars == <<stack, invoked, passes, inert, spent>>

\* The variables only the specifications of the React hooks change.
hookVars == <<notifiers, hook, instances, vm>>

\* The variables only the specification of the three-flag Command changes.
flagVars == <<flags, runs, snapshots>>

\* The variables the Command, ChangeNotifier and Observable specifications
\* leave alone.
otherVars == <<hookVars, flagVars, registry, bodies, compared, probed>>

\* The variables only the Observable specification changes.
obsVars == <<value, subs, delivered, sets, unsubscribed>>

\* ---------------------------------------------------------- ChangeNotifier

\* Position of listener fn in the Map, 0 when it is not a key.
IndexOf(ls, fn) ==
    IF \E i \in 1..Len(ls) : ls[i].fn = fn
    THEN CHOOSE i \in 1..Len(ls) : ls[i].fn = fn
    ELSE 0

\* Map.delete(listener): the other entries keep their order.
\* (Faulty variant: the entries in front of the key go with it.)
MapDelete_upTo(ls, fn) ==
    IF IndexOf(ls, fn) = 0 THEN ls ELSE SubSeq(ls, IndexOf(ls, fn) + 1, Len(ls))

MapDelete(ls, fn) == SelectSeq(ls, LAMBDA e : e.fn # fn)

\* Map.set(listener, options): a new key is appended, an existing key keeps
\* its position and gets the new options.
\* (Faulty variant: an existing key is taken out and appended again.)
MapSet_reinsert(ls, fn, once) ==
    Append(MapDelete(ls, fn), [fn |-> fn, once |-> once])

MapSet(ls, fn, once) ==
    IF IndexOf(ls, fn) = 0
    THEN Append(ls, [fn |-> fn, once |-> once])
    ELSE [ls EXCEPT ![IndexOf(ls, fn)] = [fn |-> fn, once |-> once]]

\* ChangeNotifier.hasListeners
\* (Faulty variant: the size of the Map is not looked at.)
HasListeners_anySize(ls, disposed) == ~disposed

HasListeners(ls, disposed) == Len(ls) > 0 /\ ~disposed

\* ChangeNotifier.hasListener(listener)
HasListener(ls, fn) == IndexOf(ls, fn) # 0

\* The guard "if (this.#isDisposed) return;" in front of a change of the
\* Map: a disposed notifier keeps the Map it has.
\* (Faulty variant: no guard.)
IfLive_noGuard(disposed, ls, changed) == changed

IfLive(disposed, ls, changed) == IF disposed THEN ls ELSE changed

\* What dispose() leaves: the flag set, the Map cleared.
\* (Faulty variant: the flag is toggled.)
Disposed_toggle(disposed) == [isDisposed |-> ~disposed, listeners |-> <<>>]

Disposed(disposed) == [isDisposed |-> TRUE, listeners |-> <<>>]

\* The Map after a listener read from it with options once has returned:
\* if (options?.once) this.#listeners.delete(listener).
\* (Faulty variant: the options are not looked at.)
AfterListener_keep(ls, fn, once) == ls

AfterListener(ls, fn, once) == IF once THEN MapDelete(ls, fn) ELSE ls

\* The innermost notifyListeners() call in progress.
Top == stack[Len(stack)]

\* A method of the notifier can be called now: by a client when no pass is
\* in progress, by a listener body when the innermost pass is inside it.
CanCall == IF stack = <<>> THEN TRUE ELSE Top.cur # "none"

\* A new Map iterator: nothing visited yet. cur is the listener being
\* invoked ("none" between invocations), once the options read with it.
Frame(id) == [pass |-> id, pos |-> 0, cur |-> "none", once |-> FALSE]

\* The iterators of the passes in progress after Map.delete took out the
\* entry at index i (0: no entry): pos counts the entries an iterator has
\* passed, so an iterator that had passed the entry has passed one less.
\* (Faulty variant: an index into an array, which a deletion leaves alone.)
Shifted_fixed(st, i) == st

Shifted(st, i) ==
    [k \in 1..Len(st) |->
        IF i # 0 /\ i <= st[k].pos THEN [st[k] EXCEPT !.pos = @ - 1] ELSE st[k]]

\* The iterators after Map.clear: every entry they had passed is gone.
Rewound(st) == [k \in 1..Len(st) |-> [st[k] EXCEPT !.pos = 0]]

\* History kept per pass: the Map when the pass began, the listeners taken
\* out of the Map while the pass had not reached them, the listeners
\* addListener was called with during the pass, whether the Map was changed
\* under the pass by a listener, whether the pass has returned, whether
\* addListener, removeListener or dispose was called during the pass.
PassRecord(ls) ==
    [began |-> ls, gone |-> {}, added |-> {}, mutated |-> FALSE,
     ended |-> FALSE, touched |-> FALSE]

\* The history after addListener, removeListener or dispose was called while
\* the passes of st were in progress; changed tells whether the call changed
\* the notifier.
Touched(ps, st, changed) ==
    [p \in 1..Len(ps) |->
        IF changed /\ \E k \in 1..Len(st) : st[k].pass = p
        THEN [ps[p] EXCEPT !.touched = TRUE]
        ELSE ps[p]]

\* The history after the entries of the functions fns were taken out of Map
\* ls while the passes of st were in progress. by is the pass that removed
\* them itself (its own once-deletion), 0 when a listener body did.
Noted(ps, st, ls, fns, changed, by) ==
    [p \in 1..Len(ps) |->
        IF \E k \in 1..Len(st) : st[k].pass = p
        THEN LET f == st[CHOOSE k \in 1..Len(st) : st[k].pass = p]
             IN  [ps[p] EXCEPT
                    !.gone = @ \cup {fn \in fns : IndexOf(ls, fn) > f.pos},
                    !.mutated = @ \/ (changed /\ p # by)]
        ELSE ps[p]]

\* The history after addListener was called with fn while the passes of st
\* were in progress.
Grown(ps, st, disposed, fn, changed) ==
    [p \in 1..Len(ps) |->
        IF ~disposed /\ \E k \in 1..Len(st) : st[k].pass = p
        THEN [ps[p] EXCEPT !.added = @ \cup {fn}, !.mutated = @ \/ changed]
        ELSE ps[p]]

\* The history of calls on the disposed notifier after a call of method.
Called(disposed, method) == IF disposed THEN inert \cup {method} ELSE inert

\* The for-of loop of notifyListeners from entry i on. obs is what a listener
\* reads from the command when it is invoked. A listener that throws ends the
\* loop (the exception leaves notifyListeners); a once entry is deleted right
\* after its invocation, which moves the following entries up by one.
\* (Faulty variant: the loop index also advances after a once entry was
\* deleted, which passes over the entry that moved up.)
RECURSIVE Dispatch_skip(_, _, _, _, _)
Dispatch_skip(ls, i, lg, obs, bad) ==
    IF i > Len(ls)
    THEN [listeners |-> ls, log |-> lg, threw |-> FALSE]
    ELSE LET fn == ls[i].fn
             lg2 == [lg EXCEPT ![fn] = Append(@, obs)]
         IN  IF fn \in bad
             THEN [listeners |-> ls, log |-> lg2, threw |-> TRUE]
             ELSE IF ls[i].once
                  THEN Dispatch_skip(MapDelete(ls, fn), i + 1, lg2, obs, bad)
                  ELSE Dispatch_skip(ls, i + 1, lg2, obs, bad)

\* The loop as the source has it: after a deletion the index stays.
RECURSIVE Dispatch(_, _, _, _, _)
Dispatch(ls, i, lg, obs, bad) ==
    IF i > Len(ls)
    THEN [listeners |-> ls, log |-> lg, threw |-> FALSE]
    ELSE LET fn == ls[i].fn
             lg2 == [lg EXCEPT ![fn] = Append(@, obs)]
         IN  IF fn \in bad
             THEN [listeners |-> ls, log |-> lg2, threw |-> TRUE]
             ELSE IF ls[i].once
                  THEN Dispatch(MapDelete(ls, fn), i, lg2, obs, bad)
                  ELSE Dispatch(ls, i + 1, lg2, obs, bad)

\* ChangeNotifier.notifyListeners(): nothing when disposed.
NotifyListeners(ls, disposed, lg, obs, bad) ==
    IF disposed
    THEN [listeners |-> ls, log |-> lg, threw |-> FALSE]
    ELSE Dispatch(ls, 1, lg, obs, bad)

\* What a listener reads from the command: status and result, tagged with the
\* execute() call that notifies (0 for clear()).
Observation(src, st, res) == [src |-> src, status |-> st, result |-> res]

\* ----------------------------------------------------------------- Command

\* The re-entrancy guard at the top of execute: true when the call returns
\* without doing anything.
\* (Faulty variant: no guard.)
IsSuppressed_never(st) == FALSE

IsSuppressed(st) == st = "running"

\* What the promise of a suppressed execute() is when the call returns: the
\* async function has returned, so the promise is resolved.
\* (Faulty variant: the suppressed call waits for the execution in flight.)
GuardReturn_wait == "pending"

GuardReturn == "resolved"

\* this.#result = null; this.#status = "running";
\* (Faulty variant: the previous result is not cleared.)
EnterRunning_keepResult == [status |-> "running", result |-> result]

EnterRunning == [status |-> "running", result |-> NULL]

\* The catch clause of execute: the thrown value becomes the error of a
\* Failure as it is.
\* (Faulty variant: a thrown value that is not an Error is wrapped in one.)
CaughtResult_wrap(error) ==
    Failure(IF error = "string error" THEN "Error(string error)" ELSE error)

CaughtResult(error) == Failure(error)

\* The value the try block of execute leaves in #result: the Result the
\* action returned or resolved with, or what the catch clause makes of the
\* value it threw or rejected with.
AwaitedResult(outcome) ==
    IF outcome.kind = "resolve" THEN outcome.res ELSE CaughtResult(outcome.err)

\* The try block has stored r; the finally clause sets the status.
\* (Faulty variant: a completion that finds the command no longer running is
\* dropped.)
EnterDone_ifRunning(r) ==
    IF status = "running"
    THEN [status |-> "done", result |-> r]
    ELSE [status |-> status, result |-> result]

EnterDone(r) == [status |-> "done", result |-> r]

\* this.#result = null; this.#status = "idle";
\* (Faulty variant: the status is not reset.)
ClearedState_keepStatus == [status |-> status, result |-> NULL]

ClearedState == [status |-> "idle", result |-> NULL]

\* The state of the promise execute() returned once the async function has
\* ended: what the action threw or rejected with was caught, so only an
\* exception that left notifyListeners (threw) rejects it.
\* (Faulty variant: no catch clause, the action's failure rejects it too.)
Ended_uncaught(outcome, threw) ==
    IF threw \/ outcome.kind \in {"throw", "reject"}
    THEN "rejected"
    ELSE "resolved"

Ended(outcome, threw) == IF threw THEN "rejected" ELSE "resolved"

\* The listener functions a notifyListeners() call made now would reach.
Audience(ls, disposed) ==
    IF disposed THEN {} ELSE {ls[i].fn : i \in 1..Len(ls)}

\* The latest execute() call that got past the guard, 0 if there is none.
LastStarted ==
    IF \E c \in 1..Len(calls) : calls[c].how # "guard"
    THEN CHOOSE c \in 1..Len(calls) :
            /\ calls[c].how # "guard"
            /\ \A d \in (c + 1)..Len(calls) : calls[d].how = "guard"
    ELSE 0

\* The record of one execute() call:
\*   found      the status the call found
\*   how        how the call went on: "guard" (returned at the guard), "none"
\*              (a listener threw before the action was invoked), or what the
\*              action did: "return", "throw", "promise"
\*   phase      "awaiting" the action's promise, "queued" as a microtask, or
\*              "returned" (the async function has ended)
\*   outcome    what the action returned, threw, resolved or rejected with
\*   promise    the state of the promise execute() returned
\*   blocker    for a call that returned at the guard: the call in flight
\*   atRunning, atDone   the listener functions registered when the call
\*              notified for running and for done
CallRecord(found, how, phase, outcome, promise, blocker, atRunning, atDone) ==
    [found |-> found, how |-> how, phase |-> phase, outcome |-> outcome,
     promise |-> promise, blocker |-> blocker,
     atRunning |-> atRunning, atDone |-> atDone]

\* The state after construction of a Command, nothing called yet.
InitCommand ==
    /\ status = "idle"
    /\ result = NULL
    /\ listeners = <<>>
    /\ isDisposed = FALSE
    /\ calls = <<>>
    /\ microtasks = <<>>
    /\ runCount = 0
    /\ ops = 0
    /\ log = [fn \in ListenerFns |-> <<>>]
    /\ stack = <<>>
    /\ invoked = <<>>
    /\ passes = <<>>
    /\ inert = {}
    /\ spent = {}
    /\ value = "0"
    /\ subs = <<>>
    /\ delivered = <<>>
    /\ sets = <<>>
    /\ unsubscribed = <<>>
    /\ notifiers = [x \in Listenables |-> NewNotifier]
    /\ hook = Unmounted
    /\ instances = <<>>
    /\ vm = NoComponent
    /\ flags = Cleared
    /\ runs = <<>>
    /\ snapshots = <<>>

\* No comparison is set up and no value is handed to the Results predicates.
NoComparison ==
    /\ registry = <<>>
    /\ bodies = [fn \in DispatchFns |-> <<>>]
    /\ compared = NoOutcome
    /\ probed = NoProbe

Init == InitCommand /\ throwers = {} /\ NoComparison

\* execute() found the command running: it returns at once.
ExecuteSuppressed ==
    /\ calls' = Append(calls,
           CallRecord(status, "guard", "returned", NoOutcome, GuardReturn,
                      LastStarted, {}, {}))
    /\ UNCHANGED <<status, result, listeners, isDisposed, throwers, microtasks,
                   runCount, log>>

\* execute() past the guard, with the action behaving as b: the result is
\* cleared, the status set to running and the listeners notified; then the
\* action is invoked. An action that throws is caught and the finally clause
\* runs in the same step; otherwise execute suspends at its await.
ExecuteStarted(b) ==
    LET id  == Len(calls) + 1
        run == EnterRunning
        n1  == NotifyListeners(listeners, isDisposed, log,
                               Observation(id, run.status, run.result), throwers)
        at1 == Audience(listeners, isDisposed)
        fin == EnterDone(CaughtResult(b.err))
        n2  == NotifyListeners(n1.listeners, isDisposed, n1.log,
                               Observation(id, fin.status, fin.result), throwers)
        at2 == Audience(n1.listeners, isDisposed)
    IN  IF n1.threw
        THEN /\ status' = run.status
             /\ result' = run.result
             /\ listeners' = n1.listeners
             /\ log' = n1.log
             /\ calls' = Append(calls,
                    CallRecord(status, "none", "returned", NoOutcome,
                               Ended(NoOutcome, TRUE), 0, at1, {}))
             /\ UNCHANGED <<isDisposed, throwers, microtasks, runCount>>
        ELSE IF b.kind = "throw"
        THEN /\ status' = fin.status
             /\ result' = fin.result
             /\ listeners' = n2.listeners
             /\ log' = n2.log
             /\ runCount' = runCount + 1
             /\ calls' = Append(calls,
                    CallRecord(status, "throw", "returned", b,
                               Ended(b, n2.threw), 0, at1, at2))
             /\ UNCHANGED <<isDisposed, throwers, microtasks>>
        ELSE /\ status' = run.status
             /\ result' = run.result
             /\ listeners' = n1.listeners
             /\ log' = n1.log
             /\ runCount' = runCount + 1
             /\ IF b.kind = "return"
                THEN /\ calls' = Append(calls,
                            CallRecord(status, "return", "queued",
                                       [kind |-> "resolve", res |-> b.res],
                                       "pending", 0, at1, {}))
                     /\ microtasks' = Append(microtasks, id)
                ELSE /\ calls' = Append(calls,
                            CallRecord(status, "promise", "awaiting", NoOutcome,
                                       "pending", 0, at1, {}))
                     /\ UNCHANGED microtasks
             /\ UNCHANGED <<isDisposed, throwers>>

\* Command.execute(...args), called by a client.
Execute(b) ==
    /\ ops < MaxOps
    /\ ops' = ops + 1
    /\ IF IsSuppressed(status) THEN ExecuteSuppressed ELSE ExecuteStarted(b)
    /\ UNCHANGED <<passVars, obsVars, otherVars>>

\* The promise returned by an asynchronous action settles: the continuation
\* of the execute() awaiting it is queued as a microtask.
Settle(c, s) ==
    /\ c \in 1..Len(calls)
    /\ calls[c].phase = "awaiting"
    /\ calls' = [calls EXCEPT ![c].phase = "queued", ![c].outcome = s]
    /\ microtasks' = Append(microtasks, c)
    /\ UNCHANGED <<status, result, listeners, isDisposed, throwers, runCount,
                   ops, log>>
    /\ UNCHANGED <<passVars, obsVars, otherVars>>

\* execute() resumes after its await: the result is stored (a rejection is
\* caught first), then the finally clause sets the status to done and
\* notifies the listeners.
Resume ==
    /\ microtasks # <<>>
    /\ LET c   == Head(microtasks)
           fin == EnterDone(AwaitedResult(calls[c].outcome))
           n   == NotifyListeners(listeners, isDisposed, log,
                                  Observation(c, fin.status, fin.result), throwers)
       IN  /\ result' = fin.result
           /\ status' = fin.status
           /\ listeners' = n.listeners
           /\ log' = n.log
           /\ calls' = [calls EXCEPT ![c].phase = "returned",
                                     ![c].promise = Ended(calls[c].outcome, n.threw),
                                     ![c].atDone = Audience(listeners, isDisposed)]
    /\ microtasks' = Tail(microtasks)
    /\ UNCHANGED <<isDisposed, throwers, runCount, ops>>
    /\ UNCHANGED <<passVars, obsVars, otherVars>>

\* Command.clear()
Clear ==
    /\ ops < MaxOps
    /\ ops' = ops + 1
    /\ LET clr == ClearedState
           n   == NotifyListeners(listeners, isDisposed, log,
                                  Observation(0, clr.status, clr.result), throwers)
       IN  /\ result' = clr.result
           /\ status' = clr.status
           /\ listeners' = n.listeners
           /\ log' = n.log
    /\ UNCHANGED <<isDisposed, throwers, calls, microtasks, runCount>>
    /\ UNCHANGED <<passVars, obsVars, otherVars>>

\* The once listeners invoked since their registration, after listener fn,
\* read from the Map with options once, is invoked.
Used(sp, fn, once) == IF once THEN sp \cup {fn} ELSE sp

\* ChangeNotifier.addListener(listener, options)
AddListener(fn, once) ==
    /\ CanCall
    /\ ops < MaxOps
    /\ ops' = ops + 1
    /\ listeners' = IfLive(isDisposed, listeners, MapSet(listeners, fn, once))
    /\ passes' = Touched(Grown(passes, stack, isDisposed, fn,
                                listeners' # listeners),
                          stack, listeners' # listeners)
    /\ inert' = Called(isDisposed, "addListener")
    /\ spent' = IfLive(isDisposed, spent, spent \ {fn})
    /\ UNCHANGED <<status, result, isDisposed, throwers, calls, microtasks,
                   runCount, log, stack, invoked>>

\* ChangeNotifier.removeListener(listener)
RemoveListener(fn) ==
    /\ CanCall
    /\ ops < MaxOps
    /\ ops' = ops + 1
    /\ listeners' = IfLive(isDisposed, listeners, MapDelete(listeners, fn))
    /\ stack' = Shifted(stack, IndexOf(listeners, fn))
    /\ passes' = Touched(Noted(passes, stack, listeners, {fn},
                                listeners' # listeners, 0),
                          stack, listeners' # listeners)
    /\ inert' = Called(isDisposed, "removeListener")
    /\ UNCHANGED <<status, result, isDisposed, throwers, calls, microtasks,
                   runCount, log, invoked, spent>>

\* ChangeNotifier.dispose()
Dispose ==
    /\ CanCall
    /\ ops < MaxOps
    /\ ops' = ops + 1
    /\ isDisposed' = Disposed(isDisposed).isDisposed
    /\ listeners' = Disposed(isDisposed).listeners
    /\ stack' = Rewound(stack)
    /\ passes' = Touched(Noted(passes, stack, listeners, NotifierFns,
                                listeners' # listeners \/ isDisposed' # isDisposed,
                                0),
                          stack, listeners' # listeners \/ isDisposed' # isDisposed)
    /\ inert' = Called(isDisposed, "dispose")
    /\ UNCHANGED <<status, result, throwers, calls, microtasks, runCount, log,
                   invoked, spent>>

\* ChangeNotifier.notifyListeners(), called by a client or by a listener
\* body: nothing when disposed, otherwise the for-of loop starts with a new
\* iterator over the Map.
Notify ==
    /\ CanCall
    /\ ops < MaxOps
    /\ ops' = ops + 1
    /\ IF isDisposed
       THEN UNCHANGED <<stack, passes>>
       ELSE /\ stack' = Append(stack, Frame(Len(passes) + 1))
            /\ passes' = Append(passes, PassRecord(listeners))
    /\ inert' = Called(isDisposed, "notifyListeners")
    /\ UNCHANGED <<status, result, listeners, isDisposed, throwers, calls,
                   microtasks, runCount, log, invoked, spent>>

\* The for-of loop takes the next entry of the Map and calls its listener:
\* control is in the listener body.
Invoke ==
    /\ stack # <<>>
    /\ Top.cur = "none"
    /\ Top.pos < Len(listeners)
    /\ LET e == listeners[Top.pos + 1]
       IN  /\ stack' = [stack EXCEPT ![Len(stack)] =
                            [@ EXCEPT !.pos = @ + 1, !.cur = e.fn, !.once = e.once]]
           /\ invoked' = Append(invoked, [pass |-> Top.pass, fn |-> e.fn])
           /\ spent' = Used(spent, e.fn, e.once)
    /\ UNCHANGED <<status, result, listeners, isDisposed, throwers, calls,
                   microtasks, runCount, ops, log, passes, inert>>

\* The listener body returns to the loop: if the options read with the entry
\* say once, the key is deleted from the Map.
Return ==
    /\ stack # <<>>
    /\ Top.cur # "none"
    /\ listeners' = AfterListener(listeners, Top.cur, Top.once)
    /\ LET st == [stack EXCEPT ![Len(stack)].cur = "none"]
       IN  IF Top.once
           THEN /\ stack' = Shifted(st, IndexOf(listeners, Top.cur))
                /\ passes' = Noted(passes, stack, listeners, {Top.cur},
                                   listeners' # listeners, Top.pass)
           ELSE /\ stack' = st
                /\ UNCHANGED passes
    /\ UNCHANGED <<status, result, isDisposed, throwers, calls, microtasks,
                   runCount, ops, log, invoked, inert, spent>>

\* The iterator is exhausted: notifyListeners() returns to its caller.
EndPass ==
    /\ stack # <<>>
    /\ Top.cur = "none"
    /\ Top.pos >= Len(listeners)
    /\ stack' = SubSeq(stack, 1, Len(stack) - 1)
    /\ passes' = [passes EXCEPT ![Top.pass].ended = TRUE]
    /\ UNCHANGED <<status, result, listeners, isDisposed, throwers, calls,
                   microtasks, runCount, ops, log, invoked, inert, spent>>

Next ==
    \/ \E b \in Behaviours : Execute(b)
    \/ \E c \in 1..Len(calls), s \in Settlements : Settle(c, s)
    \/ Resume
    \/ Clear
    \/ \E fn \in ListenerFns, once \in BOOLEAN :
           AddListener(fn, once) /\ UNCHANGED <<obsVars, otherVars>>
    \/ \E fn \in ListenerFns : RemoveListener(fn) /\ UNCHANGED <<obsVars, otherVars>>
    \/ Dispose /\ UNCHANGED <<obsVars, otherVars>>

\* The command with listeners that return normally.
Spec == Init /\ [][Next]_vars

\* The same with the microtask queue served: a continuation of execute()
\* that is queued is run, as the event loop runs every job it has queued.
SpecLive == Init /\ [][Next]_vars /\ WF_vars(Resume)

\* The command with a listener function, l1, whose body throws.
InitThrow == InitCommand /\ throwers = {"l1"} /\ NoComparison

SpecThrow == InitThrow /\ [][Next]_vars

\* The notifier part of the object, with listener bodies that call back.
NextNotifier ==
    \/ \E fn \in NotifierFns, once \in BOOLEAN :
           AddListener(fn, once) /\ UNCHANGED <<obsVars, otherVars>>
    \/ \E fn \in NotifierFns : RemoveListener(fn) /\ UNCHANGED <<obsVars, otherVars>>
    \/ Dispose /\ UNCHANGED <<obsVars, otherVars>>
    \/ Notify /\ UNCHANGED <<obsVars, otherVars>>
    \/ Invoke /\ UNCHANGED <<obsVars, otherVars>>
    \/ Return /\ UNCHANGED <<obsVars, otherVars>>
    \/ EndPass /\ UNCHANGED <<obsVars, otherVars>>

SpecNotifier == Init /\ [][NextNotifier]_vars

\* ----------------------------------------------------------- useListenable

\* The dispatch function useRerender returns (the same at every render), and
\* a listener somebody else registers.
Rerender == "rerender"
Other == "other"

\* notifier.addListener(fn) / removeListener(fn) / dispose()
Added(n, fn) ==
    [n EXCEPT !.listeners = IfLive(n.isDisposed, @, MapSet(@, fn, FALSE))]

Removed(n, fn) ==
    [n EXCEPT !.listeners = IfLive(n.isDisposed, @, MapDelete(@, fn))]

DisposedOf(n) == Disposed(n.isDisposed)

\* The dependency array [listenable]: the effect is run again when the
\* listenable of this render is not the one of the effect in force.
DepsChanged(dep, x) == dep # x

\* The cleanup function of the effect run with listenable dep.
\* (Faulty variant: the effect returns no cleanup.)
CleanedUp_none(ns, dep) == ns

CleanedUp(ns, dep) ==
    IF dep = NoListenable THEN ns ELSE [ns EXCEPT ![dep] = Removed(@, Rerender)]

\* The effect run with listenable x.
Effected(ns, x) == [ns EXCEPT ![x] = Added(@, Rerender)]

\* The component is rendered with listenable x, for the first time or again,
\* and the effects are flushed: when the dependency changed, the cleanup of
\* the effect in force runs, then the effect.
RenderWith(x) ==
    /\ ops < MaxOps
    /\ ops' = ops + 1
    /\ IF DepsChanged(hook.dep, x)
       THEN /\ notifiers' = Effected(CleanedUp(notifiers, hook.dep), x)
            /\ hook' = [hook EXCEPT !.mounted = TRUE, !.bound = x, !.dep = x,
                                    !.effects = @ + 1]
       ELSE /\ hook' = [hook EXCEPT !.bound = x]
            /\ UNCHANGED notifiers

\* The component unmounts: the cleanup of the effect in force runs.
Unmount ==
    /\ hook.mounted
    /\ ops < MaxOps
    /\ ops' = ops + 1
    /\ notifiers' = CleanedUp(notifiers, hook.dep)
    /\ hook' = [Unmounted EXCEPT !.redraws = hook.redraws,
                                 !.effects = hook.effects]

\* Somebody disposes listenable x.
DisposeListenable(x) ==
    /\ ops < MaxOps
    /\ ops' = ops + 1
    /\ notifiers' = [notifiers EXCEPT ![x] = DisposedOf(@)]
    /\ UNCHANGED hook

\* Somebody registers a listener of their own on listenable x.
AddOther(x) ==
    /\ ops < MaxOps
    /\ ops' = ops + 1
    /\ notifiers' = [notifiers EXCEPT ![x] = Added(@, Other)]
    /\ UNCHANGED hook

\* Listenable x notifies: the redraw callback, when it is among the
\* listeners called, asks for a render with the listenable of the latest one.
NotifyListenable(x) ==
    /\ ops < MaxOps
    /\ ops' = ops + 1
    /\ hook' = IF Rerender \in Audience(notifiers[x].listeners, notifiers[x].isDisposed)
               THEN [hook EXCEPT !.redraws = @ + 1]
               ELSE hook
    /\ UNCHANGED notifiers

\* What the hook specifications leave alone.
restVars == <<status, result, listeners, isDisposed, throwers, calls,
              microtasks, runCount, log, passVars, obsVars, flagVars,
              registry, bodies, compared, probed>>

\* What the specification of the three-flag Command leaves alone, the hooks
\* apart.
restVarsOfFlags == <<status, result, listeners, isDisposed, throwers, calls,
                     microtasks, runCount, log, passVars, obsVars,
                     registry, bodies, compared, probed>>

\* The variables of the Command, ChangeNotifier and Observable
\* specifications.
coreVars == <<status, result, listeners, isDisposed, throwers, calls,
              microtasks, runCount, ops, log, passVars, obsVars>>

NextListenable ==
    \/ \E x \in Listenables :
           RenderWith(x) /\ UNCHANGED <<restVars, instances, vm>>
    \/ Unmount /\ UNCHANGED <<restVars, instances, vm>>
    \/ \E x \in Listenables :
           DisposeListenable(x) /\ UNCHANGED <<restVars, instances, vm>>
    \/ \E x \in Listenables :
           AddOther(x) /\ UNCHANGED <<restVars, instances, vm>>
    \/ \E x \in Listenables :
           NotifyListenable(x) /\ UNCHANGED <<restVars, instances, vm>>

SpecListenable == Init /\ [][NextListenable]_vars

\* ------------------------------------------------------------ useViewModel

\* getCurrentRef(ctor, args, ref): the instance in ref.current, a new one
\* stored there first when ref.current is null.
\* (Faulty variant: a new instance at every call.)
CurrentRef_fresh(is, ref) == [instances |-> Append(is, NewNotifier), ref |-> Len(is) + 1]

CurrentRef(is, ref) ==
    IF ref = 0
    THEN [instances |-> Append(is, NewNotifier), ref |-> Len(is) + 1]
    ELSE [instances |-> is, ref |-> ref]

\* if (!newRef.hasListener(rerender)) newRef.addListener(rerender)
Listened(n) ==
    IF HasListener(n.listeners, Rerender) THEN n ELSE Added(n, Rerender)

\* The component function runs for the first time, in strict mode or not
\* (after an unmount: in a new component, with a ref of its own); the hook
\* returns getCurrentRef(ctor, args, ref).
FirstRender(strict) ==
    /\ vm.phase \in {"none", "unmounted"}
    /\ ops < MaxOps
    /\ ops' = ops + 1
    /\ LET cur == CurrentRef(instances, 0)
       IN /\ instances' = cur.instances
          /\ vm' = [NoComponent EXCEPT !.phase = "rendered", !.strict = strict,
                                       !.ref = cur.ref, !.shown = cur.ref]

\* The component function runs again while mounted, because its parent
\* rendered or because a redraw is pending.
Redraw ==
    /\ vm.phase = "mounted"
    /\ IF vm.pending THEN ops' = ops ELSE ops < MaxOps /\ ops' = ops + 1
    /\ LET cur == CurrentRef(instances, vm.ref)
       IN /\ instances' = cur.instances
          /\ vm' = [vm EXCEPT !.ref = cur.ref, !.shown = cur.ref,
                              !.pending = FALSE]

\* The effect runs, after the first render or replayed by strict mode after
\* its cleanup.
RunEffect ==
    /\ vm.phase \in {"rendered", "cleaned"}
    /\ LET oldRef == vm.ref
           cur == CurrentRef(instances, vm.ref)
           newRef == cur.ref
       IN /\ instances' = [cur.instances EXCEPT ![newRef] = Listened(@)]
          /\ vm' = [vm EXCEPT !.phase = "mounted", !.ref = newRef,
                              !.live = newRef,
                              !.pending = IF oldRef = 0 THEN TRUE ELSE @]
    /\ UNCHANGED ops

\* The cleanup function of the effect: newRef.dispose(); ref.current = null.
CleanedUpVM(is, live) == [is EXCEPT ![live] = DisposedOf(@)]

\* Strict mode runs the cleanup once, right after the first effect.
StrictCleanup ==
    /\ vm.phase = "mounted"
    /\ vm.strict
    /\ ~vm.remounted
    /\ instances' = CleanedUpVM(instances, vm.live)
    /\ vm' = [vm EXCEPT !.phase = "cleaned", !.ref = 0, !.live = 0,
                        !.remounted = TRUE]
    /\ UNCHANGED ops

\* The component unmounts: the cleanup runs, a pending redraw is dropped.
UnmountVM ==
    /\ vm.phase = "mounted"
    /\ vm.strict => vm.remounted
    /\ ops < MaxOps
    /\ ops' = ops + 1
    /\ instances' = CleanedUpVM(instances, vm.live)
    /\ vm' = [vm EXCEPT !.phase = "unmounted", !.ref = 0, !.live = 0,
                        !.pending = FALSE]

\* Somebody who holds instance i makes it notify: when the redraw callback
\* is among the listeners called, a redraw is pending.
NotifyVM(i) ==
    /\ ops < MaxOps
    /\ ops' = ops + 1
    /\ vm' = IF Rerender \in Audience(instances[i].listeners, instances[i].isDisposed)
             THEN [vm EXCEPT !.pending = TRUE]
             ELSE vm
    /\ UNCHANGED instances

NextViewModel ==
    \/ \E strict \in BOOLEAN :
           FirstRender(strict) /\ UNCHANGED <<restVars, notifiers, hook>>
    \/ Redraw /\ UNCHANGED <<restVars, notifiers, hook>>
    \/ RunEffect /\ UNCHANGED <<restVars, notifiers, hook>>
    \/ StrictCleanup /\ UNCHANGED <<restVars, notifiers, hook>>
    \/ UnmountVM /\ UNCHANGED <<restVars, notifiers, hook>>
    \/ \E i \in 1..Len(instances) :
           NotifyVM(i) /\ UNCHANGED <<restVars, notifiers, hook>>

SpecViewModel == Init /\ [][NextViewModel]_vars

\* ------------------------------------------------------ three-flag Command

\* What the wrapped action does: throw before it returns, or return a value
\* or promise whose await ends fulfilled or rejected.
Actions == {"throws", "fulfils", "rejects"}

\* The Error the action of the n-th execute() call throws or rejects with.
Errors == <<"e1", "e2", "e3", "e4", "e5", "e6", "e7", "e8">>

\* The guard of execute(): if (this.#running) return.
Reentrant(f) == f.running

\* The fields at the head of execute(), past the guard.
Started(f) == [running |-> TRUE, completed |-> FALSE, error |-> NoError]

\* try: this.#completed = true
Succeeded(f) == [f EXCEPT !.completed = TRUE]

\* catch: this.#error = error
Failed(f, e) == [f EXCEPT !.error = e]

\* finally: this.#running = false
Stopped(f) == [f EXCEPT !.running = FALSE]

\* notifyListeners() with a listener that records the three fields: the
\* snapshots after the notification of execute() call c made with fields f.
Snapshot(sn, c, f) ==
    Append(sn, [src |-> c, running |-> f.running, completed |-> f.completed,
                error |-> f.error])

\* The snapshots after catch and finally, from fields f.
Thrown(sn, c, f, e) == Snapshot(sn, c, Stopped(Failed(f, e)))

\* The snapshots after the rest of try and finally, from fields f.
Completed3(sn, c, f) ==
    Snapshot(Snapshot(sn, c, Succeeded(f)), c, Stopped(Succeeded(f)))

\* execute() is called with an action that does a. At the guard the call
\* returns. Past it the fields are set and the listeners notified; an action
\* that throws is caught and the call ends, any other is awaited.
ExecuteFlags(a) ==
    /\ ops < MaxOps
    /\ ops' = ops + 1
    /\ LET c == Len(runs) + 1
       IN IF Reentrant(flags)
          THEN /\ runs' = Append(runs, [how |-> "guard", action |-> a,
                                        phase |-> "ended", disturbed |-> FALSE])
               /\ UNCHANGED <<flags, snapshots>>
          ELSE LET first == Snapshot(snapshots, c, Started(flags))
                   others == [r \in 1..Len(runs) |->
                               IF runs[r].phase = "awaiting"
                               THEN [runs[r] EXCEPT !.disturbed = TRUE]
                               ELSE runs[r]]
               IN IF a = "throws"
                  THEN /\ flags' = Stopped(Failed(Started(flags), Errors[c]))
                       /\ snapshots' = Thrown(first, c, Started(flags), Errors[c])
                       /\ runs' = Append(others,
                              [how |-> "run", action |-> a, phase |-> "ended",
                               disturbed |-> FALSE])
                  ELSE /\ flags' = Started(flags)
                       /\ snapshots' = first
                       /\ runs' = Append(others,
                              [how |-> "run", action |-> a, phase |-> "awaiting",
                               disturbed |-> \E r \in 1..Len(runs) :
                                               runs[r].phase = "awaiting"])

\* The await of execute() call c ends and the call runs to its end.
ResumeFlags(c) ==
    /\ runs[c].phase = "awaiting"
    /\ IF runs[c].action = "fulfils"
       THEN /\ flags' = Stopped(Succeeded(flags))
            /\ snapshots' = Completed3(snapshots, c, flags)
       ELSE /\ flags' = Stopped(Failed(flags, Errors[c]))
            /\ snapshots' = Thrown(snapshots, c, flags, Errors[c])
    /\ runs' = [r \in 1..Len(runs) |->
                 IF r = c THEN [runs[r] EXCEPT !.phase = "ended"]
                 ELSE IF runs[r].phase = "awaiting"
                      THEN [runs[r] EXCEPT !.disturbed = TRUE]
                      ELSE runs[r]]
    /\ UNCHANGED ops

\* clear(): the three fields are reset; nobody is notified.
ClearFlags ==
    /\ ops < MaxOps
    /\ ops' = ops + 1
    /\ flags' = Cleared
    /\ runs' = [r \in 1..Len(runs) |->
                 IF runs[r].phase = "awaiting"
                 THEN [runs[r] EXCEPT !.disturbed = TRUE]
                 ELSE runs[r]]
    /\ UNCHANGED snapshots

NextFlags ==
    \/ \E a \in Actions :
           ExecuteFlags(a) /\ UNCHANGED <<restVarsOfFlags, hookVars>>
    \/ \E c \in 1..Len(runs) :
           ResumeFlags(c) /\ UNCHANGED <<restVarsOfFlags, hookVars>>
    \/ ClearFlags /\ UNCHANGED <<restVarsOfFlags, hookVars>>

SpecFlags == Init /\ [][NextFlags]_vars

\* ------------------------------------------------------ dispatch comparison

\* The calls a listener body makes on the notifier: addListener(fn, { once })
\* and removeListener(fn).
BodyCalls ==
    [call : {"add"}, fn : DispatchFns, once : BOOLEAN]
        \cup [call : {"remove"}, fn : DispatchFns, once : {FALSE}]

\* The listener bodies: the sequences of at most MaxCalls calls.
Bodies == UNION {[1..n -> BodyCalls] : n \in 0..MaxCalls}

\* The Maps over the listener functions: one entry per function at most, in
\* any order, with any options.
Registries ==
    {ls \in UNION {[1..n -> [fn : DispatchFns, once : BOOLEAN]] :
                      n \in 0..Cardinality(DispatchFns)} :
        \A i, j \in 1..Len(ls) : ls[i].fn = ls[j].fn => i = j}

\* The Map after one call of a listener body.
AfterCall(ls, c) ==
    IF c.call = "add" THEN MapSet(ls, c.fn, c.once) ELSE MapDelete(ls, c.fn)

\* How many entries the Map iterator has passed, when it had passed pos of
\* them and listener fn is deleted from Map ls: an entry deleted behind the
\* iterator moves the ones after it one place down.
PassedAfterDelete(ls, pos, fn) ==
    IF HasListener(ls, fn) /\ IndexOf(ls, fn) <= pos THEN pos - 1 ELSE pos

\* The Map and the place of the iterator after the calls of a listener body
\* from the k-th on.
RECURSIVE RanBody(_, _, _, _)
RanBody(body, k, ls, pos) ==
    IF k > Len(body)
    THEN [listeners |-> ls, pos |-> pos]
    ELSE RanBody(body, k + 1, AfterCall(ls, body[k]),
                 IF body[k].call = "remove"
                 THEN PassedAfterDelete(ls, pos, body[k].fn)
                 ELSE pos)

\* notifyListeners as the source has it, over the live Map: the iterator
\* takes the next entry of the Map as it is now, the listener runs, and an
\* entry read with once is deleted. fuel is how many more invocations are
\* followed; a pass that has not returned by then is reported as such.
RECURSIVE LivePass(_, _, _, _, _)
LivePass(ls, pos, inv, bs, fuel) ==
    IF pos >= Len(ls)
    THEN [invoked |-> inv, listeners |-> ls, returned |-> TRUE]
    ELSE IF fuel = 0
         THEN [invoked |-> inv, listeners |-> ls, returned |-> FALSE]
         ELSE LET e == ls[pos + 1]
                  ran == RanBody(bs[e.fn], 1, ls, pos + 1)
              IN  IF e.once
                  THEN LivePass(MapDelete(ran.listeners, e.fn),
                                PassedAfterDelete(ran.listeners, ran.pos, e.fn),
                                Append(inv, e.fn), bs, fuel - 1)
                  ELSE LivePass(ran.listeners, ran.pos, Append(inv, e.fn),
                                bs, fuel - 1)

\* notifyListeners over a snapshot of the [listener, options] pairs: each
\* pair of the snapshot in turn, its listener invoked only if it is still
\* registered, and deleted after it when the pair has once.
RECURSIVE SnapshotPass(_, _, _, _, _)
SnapshotPass(ls, snap, k, inv, bs) ==
    IF k > Len(snap)
    THEN [invoked |-> inv, listeners |-> ls, returned |-> TRUE]
    ELSE IF ~HasListener(ls, snap[k].fn)
         THEN SnapshotPass(ls, snap, k + 1, inv, bs)
         ELSE LET ran == RanBody(bs[snap[k].fn], 1, ls, 0)
              IN  SnapshotPass(IF snap[k].once
                               THEN MapDelete(ran.listeners, snap[k].fn)
                               ELSE ran.listeners,
                               snap, k + 1, Append(inv, snap[k].fn), bs)

\* A notifier with a Map and listener bodies drawn from the bounded sets.
InitDispatch ==
    /\ InitCommand
    /\ throwers = {}
    /\ registry \in Registries
    /\ bodies \in [DispatchFns -> Bodies]
    /\ compared = NoOutcome
    /\ probed = NoProbe

\* notifyListeners() is called, on the notifier as the source has it and on
\* one that dispatches over a snapshot.
Compare ==
    /\ compared = NoOutcome
    /\ compared' = [kind |-> "compared",
                    live |-> LivePass(registry, 0, <<>>, bodies, MaxInvocations),
                    snapshot |-> SnapshotPass(registry, registry, 1, <<>>, bodies)]
    /\ UNCHANGED <<registry, bodies>>

NextDispatch ==
    Compare /\ UNCHANGED <<coreVars, flagVars, hookVars, probed>>

SpecDispatch == InitDispatch /\ [][NextDispatch]_vars

\* ------------------------------------------------- Results predicates, run

\* A value drawn from the bounded set, the predicates not yet asked.
InitResults ==
    /\ InitCommand
    /\ throwers = {}
    /\ registry = <<>>
    /\ bodies = [fn \in DispatchFns |-> <<>>]
    /\ compared = NoOutcome
    /\ probed \in { Probe(v, "none") : v \in Subjects }

\* The three predicates are called on the value; answers holds the ones
\* that returned true.
Ask ==
    /\ ~probed.asked
    /\ probed' = [probed EXCEPT
           !.asked = TRUE,
           !.answers =
               (IF isResult(probed.subject) THEN {"isResult"} ELSE {})
                   \cup (IF isSuccess(probed.subject) THEN {"isSuccess"} ELSE {})
                   \cup (IF isFailure(probed.subject) THEN {"isFailure"} ELSE {})]

\* Results.Success(x) is called, x an optional argument.
MakeSuccess(x) ==
    /\ probed.asked
    /\ probed.made = "none"
    /\ probed' = Probe(Literal(Success(x)), "Success")

\* Results.Failure(e) is called.
MakeFailure(e) ==
    /\ probed.asked
    /\ probed.made = "none"
    /\ probed' = Probe(Literal(Failure(e)), "Failure")

NextResults ==
    \/ Ask /\ UNCHANGED <<coreVars, flagVars, hookVars, registry, bodies, compared>>
    \/ \E x \in PropValues :
           MakeSuccess(x)
               /\ UNCHANGED <<coreVars, flagVars, hookVars, registry, bodies, compared>>
    \/ \E e \in PropValues :
           MakeFailure(e)
               /\ UNCHANGED <<coreVars, flagVars, hookVars, registry, bodies, compared>>

SpecResults == InitResults /\ [][NextResults]_vars

\* -------------------------------------------------------------- Observable

\* a === b on numbers: NaN is not equal to itself.
StrictEquals(a, b) == a = b /\ a # NaN

\* The value setter up to its call of notifyListeners: an assignment of a
\* strictly equal value returns at once, another one is stored and notified.
\* (Faulty variant: no comparison.)
Assigned_always(cur, v) == [value |-> v, notify |-> TRUE]

Assigned(cur, v) ==
    IF StrictEquals(cur, v)
    THEN [value |-> cur, notify |-> FALSE]
    ELSE [value |-> v, notify |-> TRUE]

\* The passes in progress.
Under == {stack[k].pass : k \in 1..Len(stack)}

\* History of one assignment: the value found, the value assigned, the pass
\* it started (0: none) and the passes it was made under.
SetRecord(before, v, pass) ==
    [before |-> before, value |-> v, pass |-> pass, under |-> Under]

\* observable.value = v, by a client or by a subscriber body.
SetValue(v) ==
    LET a == Assigned(value, v)
    IN  /\ value' = a.value
        /\ IF a.notify
           THEN /\ Notify
                /\ sets' = Append(sets, SetRecord(value, v, Len(passes) + 1))
           ELSE /\ CanCall
                /\ ops < MaxOps
                /\ ops' = ops + 1
                /\ sets' = Append(sets, SetRecord(value, v, 0))
                /\ UNCHANGED <<status, result, listeners, isDisposed, throwers,
                               calls, microtasks, runCount, log, passVars>>
        /\ UNCHANGED <<subs, delivered, unsubscribed>>

\* The wrapper function created by the n-th subscribe() call:
\* const wrapped = () => listener(this.#value), a new function each time.
Wrappers == <<"w1", "w2", "w3", "w4", "w5", "w6", "w7", "w8">>

\* (Faulty variant: one wrapper per observable, whatever the call.)
Wrapped_same(n) == Wrappers[1]

Wrapped(n) == Wrappers[n]

\* observable.subscribe(listener, options): a new wrapper function is
\* registered on the notifier.
Subscribe(raw, once) ==
    /\ Len(subs) < Len(Wrappers)
    /\ AddListener(Wrapped(Len(subs) + 1), once)
    /\ subs' = Append(subs, raw)
    /\ unsubscribed' = Append(unsubscribed, 0)
    /\ UNCHANGED <<value, delivered, sets>>

\* The function returned by the w-th subscribe() call is called.
Unsubscribe(w) ==
    /\ RemoveListener(Wrapped(w))
    /\ unsubscribed' = [unsubscribed EXCEPT ![w] = @ + 1]
    /\ UNCHANGED <<value, subs, delivered, sets>>

\* What the wrapper invoked by pass p passes to its listener: this.#value,
\* read when the wrapper runs.
\* (Faulty variant: the value whose assignment started the pass.)
Passed_atNotify(cur, p) ==
    sets[CHOOSE i \in 1..Len(sets) : sets[i].pass = p].value

Passed(cur, p) == cur

\* The loop of the notifier calls the next wrapper, which calls its listener
\* with the value it reads now: listener(this.#value).
Deliver ==
    /\ Invoke
    /\ delivered' = Append(delivered,
           [pass |-> Top.pass, sub |-> Top'.cur,
            value |-> Passed(value, Top.pass)])
    /\ UNCHANGED <<value, subs, sets, unsubscribed>>

NextObservable ==
    \/ \E raw \in RawListeners, once \in BOOLEAN :
           Subscribe(raw, once) /\ UNCHANGED otherVars
    \/ \E w \in 1..Len(subs) : Unsubscribe(w) /\ UNCHANGED otherVars
    \/ \E v \in Values : SetValue(v) /\ UNCHANGED otherVars
    \/ Deliver /\ UNCHANGED otherVars
    \/ Return /\ UNCHANGED <<obsVars, otherVars>>
    \/ EndPass /\ UNCHANGED <<obsVars, otherVars>>

SpecObservable == Init /\ [][NextObservable]_vars

\* ------------------------------------------------------------- Properties

\* The execute() calls made so far.
CallIds == 1..Len(calls)

\* An execute() call is a step of the behaviour.
ExecuteStep == \E b \in Behaviours : Execute(b)

\* The action invoked by call c has been started and its execute() has not
\* yet stored its outcome.
InFlight(c) == calls[c].phase \in {"awaiting", "queued"}

\* Call c invoked the action and its execute() has run to its end.
Completed(c) ==
    /\ calls[c].how \in {"return", "throw", "promise"}
    /\ calls[c].phase = "returned"

\* Listener function fn is registered on a notifier that is not disposed.
Registered(fn) == ~isDisposed /\ \E i \in 1..Len(listeners) : listeners[i].fn = fn

\* What listener function fn observed in the notifications of call c.
HeardFrom(fn, c) == SelectSeq(log[fn], LAMBDA o : o.src = c)

\* The Result an execution is to end with, given what its action did.
ExpectedResult(o) ==
    IF o.kind = "resolve" THEN o.res ELSE [ok |-> FALSE, error |-> o.err]

\* C1, step part: an execute() call that finds the status "running" invokes
\* no action, notifies nobody and leaves status and result as they are; an
\* execute() call that finds "idle" or "done" invokes the action once.
C1_Step ==
    ExecuteStep =>
        IF status = "running"
        THEN /\ runCount' = runCount
             /\ log' = log
             /\ status' = status
             /\ result' = result
        ELSE runCount' = runCount + 1

\* C1, count part: the number of action invocations is the number of
\* execute() calls that found a status other than "running".
C1_Count ==
    runCount = Cardinality({c \in CallIds : calls[c].found # "running"})

\* C1: the re-entrancy guard. Both parts, in every behaviour.
C1_ReentrancyGuard == []C1_Count /\ [][C1_Step]_vars

\* C1 witness: a call was suppressed while an action was in flight and a
\* listener was registered to hear of it.
C1_Witness ==
    \E c \in CallIds :
        /\ calls[c].found = "running"
        /\ runCount = 1
        /\ \E fn \in ListenerFns : Registered(fn) /\ Len(log[fn]) = 1

C3_RunningHasNoResult == status = "running" => result = NULL

\* C3 witness: the command is running again after an execution that had
\* left a result.
C3_Witness ==
    /\ status = "running"
    /\ Len(calls) >= 2
    /\ calls[Len(calls)].found = "done"

\* C4: an execution whose action throws or rejects with e ends with status
\* "done" and result Failure(e), e as it was thrown; one whose action
\* returns a Failure ends with that Failure as result; and the promise of
\* execute() resolves.
C4_Step ==
    \A c \in 1..Len(calls') :
        LET o == calls'[c].outcome IN
        (/\ calls'[c].phase = "returned"
         /\ (c > Len(calls) \/ calls[c].phase # "returned")
         /\ calls'[c].how \in {"return", "throw", "promise"}
         /\ (o.kind \in {"throw", "reject"} \/ (o.kind = "resolve" /\ ~o.res.ok)))
        => /\ status' = "done"
           /\ result' = (IF o.kind = "resolve"
                         THEN o.res
                         ELSE [ok |-> FALSE, error |-> o.err])
           /\ calls'[c].promise = "resolved"

\* C4: every step of every behaviour satisfies C4_Step.
C4_FailureCaptured == [][C4_Step]_vars

\* C4 witness: an action has rejected with a value that is not an Error
\* and the command holds it.
C4_Witness ==
    /\ status = "done"
    /\ result = [ok |-> FALSE, error |-> "string error"]
    /\ \E c \in CallIds : Completed(c) /\ calls[c].outcome.kind = "reject"

\* C5 as stated: the promise returned by execute() never rejects.
C5_NeverRejects == \A c \in CallIds : calls[c].promise # "rejected"

\* C5 as amended: the promise returned by execute() rejects exactly when a
\* listener threw in one of that call's notifications; whatever the action
\* does and whatever state the call finds, it resolves otherwise.
C5_RejectsOnlyByListener ==
    \A c \in CallIds :
        (calls[c].promise = "rejected")
            <=> (\E fn \in throwers : HeardFrom(fn, c) # <<>>)

\* C5 witness: with the throwing listener registered one call has rejected,
\* and once it was removed a call whose action rejected has resolved.
C5_Witness ==
    \E c, d \in CallIds :
        /\ calls[c].promise = "rejected"
        /\ calls[d].promise = "resolved"
        /\ calls[d].outcome.kind \in {"throw", "reject"}

\* C6 as stated: right after an execute() call that found "idle" or "done",
\* the status is "running" and the result is null, whatever the action does.
C6_RunningAfterExecute ==
    [][(ExecuteStep /\ status # "running")
           => (status' = "running" /\ result' = NULL)]_vars

\* C6 as amended: right after an execute() call that found "idle" or
\* "done", the status is "running" and the result is null, unless the action
\* threw synchronously: then the status is already "done" and the result is
\* the Failure of the thrown value.
C6_Step ==
    (ExecuteStep /\ status # "running") =>
        LET me == calls'[Len(calls')] IN
        IF me.how = "throw"
        THEN /\ status' = "done"
             /\ result' = [ok |-> FALSE, error |-> me.outcome.err]
        ELSE /\ status' = "running"
             /\ result' = NULL

\* C6 as amended: every step of every behaviour satisfies C6_Step.
C6_RunningUnlessThrown == [][C6_Step]_vars

\* C6 witness: the latest execute() call found "done", its action threw
\* synchronously, and the call has left the command done with the Failure.
C6_Witness ==
    /\ Len(calls) >= 2
    /\ calls[Len(calls)].found = "done"
    /\ calls[Len(calls)].how = "throw"
    /\ status = "done"
    /\ result = [ok |-> FALSE, error |-> "Error(boom)"]

\* C7 as stated: the promise of a suppressed execute() call is resolved only
\* once the execution that was in flight has ended (has fired its "done"
\* notification).
C7_ResolvesAfterDone ==
    \A c \in CallIds :
        (calls[c].found = "running" /\ calls[c].promise = "resolved")
            => (calls[c].blocker # 0 /\ calls[calls[c].blocker].phase = "returned")

\* C7 as amended: the promise of a suppressed execute() call is resolved
\* when the call returns, while the execution in flight has not ended and no
\* listener has observed its "done" notification.
C7_Step ==
    (ExecuteStep /\ status = "running") =>
        LET me == calls'[Len(calls')]
            k  == me.blocker
        IN  /\ me.promise = "resolved"
            /\ k \in CallIds
            /\ InFlight(k)
            /\ calls'[k] = calls[k]
            /\ \A fn \in ListenerFns :
                   \A i \in 1..Len(log'[fn]) :
                       ~(log'[fn][i].src = k /\ log'[fn][i].status = "done")

\* C7 as amended: every step of every behaviour satisfies C7_Step.
C7_ResolvesAtOnce == [][C7_Step]_vars

\* C7 witness: a suppressed call's promise is resolved while the execution
\* that suppressed it is in flight, a listener having heard only "running".
C7_Witness ==
    \E c \in CallIds :
        /\ calls[c].found = "running"
        /\ calls[c].promise = "resolved"
        /\ calls[c].blocker \in CallIds
        /\ InFlight(calls[c].blocker)
        /\ \E fn \in ListenerFns : Len(HeardFrom(fn, calls[c].blocker)) = 1

\* C8: at most one invocation of the action is in flight (started, its
\* promise not yet settled).
C8_AtMostOneInFlight ==
    Cardinality({c \in CallIds : calls[c].phase = "awaiting"}) <= 1

\* C9: clear() sets the status to "idle" and the result to null, invokes no
\* action, and notifies once: every registered listener observes one more
\* notification, with status "idle" and result null, and nobody else
\* observes anything.
C9_Step ==
    Clear =>
        /\ status' = "idle"
        /\ result' = NULL
        /\ runCount' = runCount
        /\ \A fn \in ListenerFns :
               log'[fn] = IF Registered(fn)
                          THEN Append(log[fn],
                                   [src |-> 0, status |-> "idle", result |-> NULL])
                          ELSE log[fn]

\* C9: every step of every behaviour satisfies C9_Step.
C9_ClearResets == [][C9_Step]_vars

\* C9 witness: a listener has observed a clear() made while running and a
\* clear() made while done.
C9_Witness ==
    \E fn \in ListenerFns :
        /\ \E i \in 1..(Len(log[fn]) - 1) :
               log[fn][i].status = "running" /\ log[fn][i + 1].src = 0
        /\ \E i \in 1..(Len(log[fn]) - 1) :
               log[fn][i].status = "done" /\ log[fn][i + 1].src = 0
        /\ status = "idle"

\* C10: clear() does not cancel an action in flight; when the execution
\* resumes on a cleared (idle) command it sets the status to "done" and the
\* result to its action's Result, and every registered listener observes
\* that notification.
C10_Step ==
    /\ Clear => (calls' = calls /\ microtasks' = microtasks)
    /\ (Resume /\ status = "idle") =>
           LET c == Head(microtasks) IN
           /\ status' = "done"
           /\ result' = ExpectedResult(calls[c].outcome)
           /\ \A fn \in ListenerFns :
                  log'[fn] = IF Registered(fn)
                             THEN Append(log[fn],
                                      [src |-> c, status |-> "done",
                                       result |-> ExpectedResult(calls[c].outcome)])
                             ELSE log[fn]

\* C10: every step of every behaviour satisfies C10_Step.
C10_LastWriterWins == [][C10_Step]_vars

\* C10 witness: a listener observed an execution start, then the clear(),
\* then the same execution's "done".
C10_Witness ==
    \E fn \in ListenerFns :
        \E i \in 1..(Len(log[fn]) - 2) :
            /\ log[fn][i].status = "running"
            /\ log[fn][i + 1].src = 0
            /\ log[fn][i + 2].src = log[fn][i].src
            /\ log[fn][i + 2].status = "done"
            /\ status = "done"
            /\ result = log[fn][i + 2].result

\* C11: what the listeners hear from an execute() that found the command
\* done never shows status idle, and the first thing they hear from it is
\* status running with the result already null.
C11_Heard ==
    \A c \in CallIds :
        calls[c].found = "done" =>
            \A fn \in ListenerFns :
                LET h == HeardFrom(fn, c)
                IN  /\ \A i \in 1..Len(h) : h[i].status \in {"running", "done"}
                    /\ fn \in calls[c].atRunning =>
                           /\ h # <<>>
                           /\ h[1] = Observation(c, "running", NULL)

\* C11: an execute() step that finds the command done leaves it running with
\* a null result, or (the action threw synchronously) done again; the step
\* that resumes such a call leaves the command done.
C11_Step ==
    /\ ExecuteStep /\ status = "done" =>
           /\ calls'[Len(calls')].found = "done"
           /\ calls'[Len(calls')].how # "guard"
           /\ \/ status' = "running" /\ result' = NULL
              \/ status' = "done" /\ calls'[Len(calls')].how = "throw"
    /\ Resume => status' = "done"

\* C11: re-execution goes from done to running to done, never through idle.
C11_DoneToRunning == []C11_Heard /\ [][C11_Step]_vars

\* A listener has heard both notifications of a completed execute() that
\* found the command done.
C11_Witness ==
    \E c \in CallIds, fn \in ListenerFns :
        /\ calls[c].found = "done"
        /\ Completed(c)
        /\ Len(HeardFrom(fn, c)) = 2

\* The client or a listener body calls addListener, removeListener or
\* notifyListeners.
NotifierCall ==
    \/ \E fn \in NotifierFns, once \in BOOLEAN : AddListener(fn, once)
    \/ \E fn \in NotifierFns : RemoveListener(fn)
    \/ Notify

\* C12: a call of addListener, removeListener or notifyListeners on a
\* disposed notifier invokes no listener, starts no pass and changes nothing:
\* the Map stays empty, the flag stays set, hasListeners and hasListener(l)
\* read false.
C12_Step ==
    NotifierCall /\ isDisposed =>
        /\ invoked' = invoked
        /\ stack' = stack
        /\ passes' = passes
        /\ listeners' = listeners
        /\ listeners' = <<>>
        /\ isDisposed'
        /\ ~HasListeners(listeners', isDisposed')
        /\ \A fn \in NotifierFns : ~HasListener(listeners', fn)

\* C12: every step of every behaviour satisfies C12_Step.
C12_InertAfterDispose == [][C12_Step]_vars

\* All three methods have been called on the disposed notifier.
C12_Witness ==
    /\ isDisposed
    /\ {"addListener", "removeListener", "notifyListeners"} \subseteq inert

\* C13: hasListeners reads true exactly when the notifier is not disposed and
\* hasListener(l) holds of some listener l; on a disposed notifier it reads
\* false.
C13_HasListeners ==
    /\ HasListeners(listeners, isDisposed) <=>
           (~isDisposed /\ \E fn \in NotifierFns : HasListener(listeners, fn))
    /\ isDisposed => ~HasListeners(listeners, isDisposed)

\* A notifier whose listeners were invoked has been disposed since.
C13_Witness ==
    /\ isDisposed
    /\ invoked # <<>>
    /\ ~HasListeners(listeners, isDisposed)

\* The passes begun so far.
PassIds == 1..Len(passes)

\* The listener functions pass p has invoked, in order.
RECURSIVE FnsFrom(_, _, _)
FnsFrom(seq, i, p) ==
    IF i > Len(seq)
    THEN <<>>
    ELSE IF seq[i].pass = p
         THEN <<seq[i].fn>> \o FnsFrom(seq, i + 1, p)
         ELSE FnsFrom(seq, i + 1, p)

InvokedIn(p) == FnsFrom(invoked, 1, p)

\* The listener functions registered when pass p began, in Map order.
BeganFns(p) == [i \in 1..Len(passes[p].began) |-> passes[p].began[i].fn]

\* How many times pass p has invoked fn.
TimesIn(p, fn) ==
    Cardinality({i \in 1..Len(invoked) : invoked[i] = [pass |-> p, fn |-> fn]})

IsPrefix(s, t) == Len(s) <= Len(t) /\ SubSeq(t, 1, Len(s)) = s

\* C14: a pass under which no listener changed the Map invokes the listeners
\* registered at its start in Map order (the order of registration), each
\* once, and has invoked all of them when notifyListeners returns.
C14_FifoOnce ==
    \A p \in PassIds :
        ~passes[p].mutated =>
            /\ IsPrefix(InvokedIn(p), BeganFns(p))
            /\ passes[p].ended => InvokedIn(p) = BeganFns(p)

\* A pass over three listeners, with a once listener among them, has
\* returned and no listener changed the Map meanwhile.
C14_Witness ==
    \E p \in PassIds :
        /\ passes[p].ended
        /\ ~passes[p].mutated
        /\ Len(passes[p].began) = 3
        /\ \E i \in 1..2 : passes[p].began[i].once

\* The elements of seq that are not in set out, in order.
Without(seq, out) == SelectSeq(seq, LAMBDA fn : fn \notin out)

\* C15: under a pass during which listeners are removed and none is added,
\* the listeners invoked are those registered when the pass began, in order,
\* minus those removed while the pass had not reached them: a listener
\* removed before its turn is not invoked, the removal of one already
\* invoked costs no other listener its turn, and a pass begun after the
\* removal does not invoke the removed listener.
C15_Removal ==
    \A p \in PassIds :
        passes[p].added = {} =>
            LET due == Without(BeganFns(p), passes[p].gone)
            IN  /\ IsPrefix(InvokedIn(p), due)
                /\ passes[p].ended => InvokedIn(p) = due

\* C15: removeListener leaves the listener unregistered, and a pass invokes
\* only listeners that are registered when their turn comes.
C15_Step ==
    /\ \A fn \in NotifierFns :
           RemoveListener(fn) => ~HasListener(listeners', fn)
    /\ Invoke => HasListener(listeners, Top'.cur)

\* C15: removal during a pass, before and after the removed listener's turn.
C15_RemoveDuringPass == []C15_Removal /\ [][C15_Step]_vars

\* The second test: a pass of two listeners during which the first one was
\* removed after its turn has returned, and a later pass invoked only the
\* other one.
C15_Witness ==
    \E p, q \in PassIds :
        /\ p < q
        /\ passes[p].ended /\ passes[q].ended
        /\ passes[p].mutated
        /\ passes[p].added = {} /\ passes[p].gone = {}
        /\ Len(InvokedIn(p)) = 2
        /\ Len(InvokedIn(q)) = 1
        /\ InvokedIn(q)[1] = InvokedIn(p)[2]

\* The first test: a listener was removed before its turn in a pass that has
\* returned.
C15_WitnessBefore ==
    \E p \in PassIds :
        /\ passes[p].ended
        /\ passes[p].added = {}
        /\ passes[p].gone # {}
        /\ InvokedIn(p) # <<>>

\* C16: whatever the listener bodies do to the Map during a pass, no listener
\* registered when the pass began is invoked more than once by that pass, and
\* when the pass has returned each of them has been invoked unless it was
\* removed before its turn.
C16_OncePerPass ==
    \A p \in PassIds :
        \A i \in 1..Len(passes[p].began) :
            LET fn == passes[p].began[i].fn
            IN  /\ TimesIn(p, fn) <= 1
                /\ passes[p].ended /\ fn \notin passes[p].gone =>
                       TimesIn(p, fn) >= 1

\* C17: addListener with a listener that is registered leaves the number of
\* entries and the position of every listener as they were, gives the
\* listener the options of this call and leaves the options of the others.
C17_Step ==
    \A fn \in NotifierFns, once \in BOOLEAN :
        AddListener(fn, once) /\ HasListener(listeners, fn) =>
            /\ Len(listeners') = Len(listeners)
            /\ \A g \in NotifierFns : IndexOf(listeners', g) = IndexOf(listeners, g)
            /\ \A i \in 1..Len(listeners) :
                   listeners'[i].once =
                       IF listeners[i].fn = fn THEN once ELSE listeners[i].once

\* C17: no listener function is the key of two entries.
C17_Unique ==
    \A i, j \in 1..Len(listeners) :
        listeners[i].fn = listeners[j].fn => i = j

\* C17: re-adding updates the options in place and never duplicates.
C17_ReAddInPlace == []C17_Unique /\ [][C17_Step]_vars

\* A pass began with a once listener in second place; the first listener
\* re-added it without options; the pass has invoked it and returned, and
\* the listener is still registered in second place.
C17_Witness ==
    \E p \in PassIds :
        /\ passes[p].ended
        /\ Len(passes[p].began) >= 2
        /\ passes[p].began[2].once
        /\ passes[p].began[2].fn \in passes[p].added
        /\ passes[p].gone = {}
        /\ TimesIn(p, passes[p].began[2].fn) = 1
        /\ Len(listeners) >= 2
        /\ listeners[2] = [fn |-> passes[p].began[2].fn, once |-> FALSE]

\* C18: when a listener read from the Map with once returns, it is taken out
\* of the Map and nothing else is; when one read without once returns, the
\* Map is left as it is; a pass invokes only registered listeners.
C18_Step ==
    /\ Return /\ Top.once =>
           /\ ~HasListener(listeners', Top.cur)
           /\ listeners' = MapDelete(listeners, Top.cur)
    /\ Return /\ ~Top.once => listeners' = listeners
    /\ Invoke =>
           /\ HasListener(listeners, Top'.cur)
           /\ Top'.once = listeners[IndexOf(listeners, Top'.cur)].once

\* C18: when a pass that no listener body disturbed returns, each listener
\* registered with once at its start has been invoked once by it and is no
\* longer registered, and each other one is still registered.
C18_AtReturn ==
    EndPass /\ ~passes[Top.pass].mutated =>
        \A i \in 1..Len(passes[Top.pass].began) :
            LET e == passes[Top.pass].began[i]
            IN  /\ TimesIn(Top.pass, e.fn) = 1
                /\ HasListener(listeners', e.fn) <=> ~e.once

\* C18: a once listener is removed right after its invocation.
C18_OnceRemoved == [][C18_Step /\ C18_AtReturn]_vars

\* Two passes have returned, undisturbed: the first began with a once
\* listener and another one, the second invoked only the other one.
C18_Witness ==
    \E p, q \in PassIds :
        /\ p < q
        /\ passes[p].ended /\ passes[q].ended
        /\ ~passes[p].mutated /\ ~passes[q].mutated
        /\ passes[p].added = {} /\ passes[q].added = {}
        /\ Len(passes[p].began) = 2
        /\ \E i, j \in 1..2 :
               /\ passes[p].began[i].once
               /\ ~passes[p].began[j].once
               /\ InvokedIn(q) = <<passes[p].began[j].fn>>
        /\ Len(InvokedIn(p)) = 2

\* C19: a disposed notifier stays disposed, and dispose() on a disposed
\* notifier leaves the flag, the Map, the passes in progress and the
\* listener invocations as they are.
C19_Step ==
    /\ isDisposed => isDisposed'
    /\ Dispose /\ isDisposed =>
           /\ listeners' = listeners
           /\ stack' = stack
           /\ invoked' = invoked
           /\ passes' = passes

\* C19: on a disposed notifier the Map is empty and hasListeners reads false.
C19_Silent ==
    isDisposed => listeners = <<>> /\ ~HasListeners(listeners, isDisposed)

\* C19: disposal is permanent and repeating it changes nothing.
C19_DisposeOnce == []C19_Silent /\ [][C19_Step]_vars

\* dispose() has been called again on a disposed notifier that had invoked
\* listeners.
C19_Witness ==
    /\ isDisposed
    /\ "dispose" \in inert
    /\ invoked # <<>>

\* What pass p has delivered: the wrapper called and the value it passed on,
\* in order.
RECURSIVE DeliveriesFrom(_, _, _)
DeliveriesFrom(seq, i, p) ==
    IF i > Len(seq)
    THEN <<>>
    ELSE IF seq[i].pass = p
         THEN <<[sub |-> seq[i].sub, value |-> seq[i].value]>>
                  \o DeliveriesFrom(seq, i + 1, p)
         ELSE DeliveriesFrom(seq, i + 1, p)

DeliveredIn(p) == DeliveriesFrom(delivered, 1, p)

\* The value whose assignment started pass p.
AssignedOf(p) ==
    sets[CHOOSE k \in 1..Len(sets) : sets[k].pass = p].value

\* Each subscription present when pass p began, once, in order, with the
\* value whose assignment started the pass.
DueIn(p) ==
    [i \in 1..Len(passes[p].began) |->
        [sub |-> passes[p].began[i].fn, value |-> AssignedOf(p)]]

\* No subscriber body changed the subscriptions or the value while pass p was
\* in progress.
Undisturbed(p) ==
    /\ ~passes[p].mutated
    /\ passes[p].added = {}
    /\ \A k \in 1..Len(sets) : sets[k].pass # 0 => p \notin sets[k].under

C20_Undisturbed ==
    /\ \A k \in 1..Len(sets) :
           StrictEquals(sets[k].before, sets[k].value) <=> sets[k].pass = 0
    /\ \A p \in PassIds :
           Undisturbed(p) =>
               /\ IsPrefix(DeliveredIn(p), DueIn(p))
               /\ passes[p].ended => DeliveredIn(p) = DueIn(p)

\* C20 as amended: the setter stores nothing, calls nobody and starts no
\* delivery when the value assigned is strictly equal to the stored one, and
\* otherwise stores the value and starts one delivery.
C20_Step ==
    \A v \in Values :
        SetValue(v) =>
            IF StrictEquals(value, v)
            THEN /\ value' = value
                 /\ UNCHANGED <<listeners, stack, passes, invoked, delivered>>
            ELSE /\ value' = v
                 /\ Len(passes') = Len(passes) + 1
                 /\ Len(stack') = Len(stack) + 1
                 /\ UNCHANGED <<listeners, invoked, delivered>>

CallOf(w) == CHOOSE n \in 1..Len(Wrappers) : Wrappers[n] = w

RawOf(w) == subs[CallOf(w)]

\* How many subscriptions of listener raw are in Map ls, sb being the
\* subscribe() calls made.
SubscriptionsOf(ls, sb, raw) ==
    Cardinality({i \in 1..Len(ls) : sb[CallOf(ls[i].fn)] = raw})

\* How many times pass p has called listener raw.
CalledIn(p, raw) ==
    Cardinality({i \in 1..Len(delivered) :
                    delivered[i].pass = p /\ RawOf(delivered[i].sub) = raw})

\* C21: a delivery that no subscriber body disturbed has called a listener,
\* when it returns, as many times as the listener was subscribed when it
\* began.
C21_CalledPerSubscription ==
    \A p \in PassIds :
        passes[p].ended /\ Undisturbed(p) =>
            \A raw \in RawListeners :
                CalledIn(p, raw) = SubscriptionsOf(passes[p].began, subs, raw)

\* C21: subscribe adds one subscription whether or not the listener is
\* subscribed already, and an unsubscribe function removes the subscription
\* of its own subscribe call and no other.
C21_Step ==
    /\ \A raw \in RawListeners, once \in BOOLEAN :
           Subscribe(raw, once) =>
               /\ SubscriptionsOf(listeners', subs', raw) =
                      SubscriptionsOf(listeners, subs, raw) + 1
               /\ SubSeq(listeners', 1, Len(listeners)) = listeners
    /\ \A w \in 1..Len(subs) :
           Unsubscribe(w) =>
               /\ listeners' = MapDelete(listeners, Wrapped(w))
               /\ Len(listeners') >= Len(listeners) - 1
               /\ \A i \in 1..Len(listeners') : CallOf(listeners'[i].fn) # w

\* C21: n subscribe calls with one listener make n subscriptions.
C21_Independent == []C21_CalledPerSubscription /\ [][C21_Step]_vars

\* One listener was subscribed twice: a delivery called it twice, one of the
\* two unsubscribe functions was called, and the next delivery called it
\* once.
C21_Witness ==
    \E p, q \in PassIds, raw \in RawListeners :
        /\ p < q
        /\ passes[p].ended /\ passes[q].ended
        /\ Undisturbed(p) /\ Undisturbed(q)
        /\ CalledIn(p, raw) = 2
        /\ CalledIn(q, raw) = 1
        /\ SubscriptionsOf(listeners, subs, raw) = 1

\* C22: a subscription whose unsubscribe function has been called is not in
\* the notifier's Map.
C22_Gone ==
    \A w \in 1..Len(subs) :
        unsubscribed[w] > 0 => ~HasListener(listeners, Wrapped(w))

\* C22: an unsubscribe function takes its own subscription out of the Map
\* and leaves the other subscriptions, their options and order, and the
\* stored value as they are; called again it leaves the Map as it is; and a
\* delivery calls no subscription whose unsubscribe function has been called.
C22_Step ==
    /\ \A w \in 1..Len(subs) :
           Unsubscribe(w) =>
               /\ value' = value
               /\ delivered' = delivered
               /\ listeners' = SelectSeq(listeners, LAMBDA e : e.fn # Wrapped(w))
               /\ unsubscribed[w] > 0 => listeners' = listeners
    /\ Deliver => unsubscribed[CallOf(Top'.cur)] = 0

\* C22: unsubscribing is final, touches nothing else and can be repeated.
C22_Unsubscribed == []C22_Gone /\ [][C22_Step]_vars

\* One of two subscriptions had its unsubscribe function called twice, and a
\* delivery made afterwards called the other one only.
C22_Witness ==
    \E w \in 1..Len(subs), p \in PassIds :
        /\ unsubscribed[w] = 2
        /\ passes[p].ended
        /\ Len(passes[p].began) = 1
        /\ CallOf(passes[p].began[1].fn) # w
        /\ Len(DeliveredIn(p)) = 1
        /\ \A k \in 1..Len(sets) : sets[k].pass = p => sets[k].under = {}

\* The values an action succeeds with and the values thrown, rejected with
\* or put into a Failure in this model; an atom stands for one object.
ValuesReturned == {b.res.value : b \in {x \in Behaviours : x.kind = "return"}}

ErrorsRaised ==
    {b.err : b \in {x \in Behaviours : x.kind = "throw"}}
        \cup {s.err : s \in {x \in Settlements : x.kind = "reject"}}
        \cup {s.res.error : s \in {x \in Settlements : x.kind = "resolve"}}

\* C23: Failure(e) has the two fields ok = false and error = e, Success(v)
\* the two fields ok = true and value = v.
C23_Constructors ==
    /\ \A e \in ErrorsRaised :
           /\ DOMAIN Failure(e) = {"ok", "error"}
           /\ Failure(e).ok = FALSE
           /\ Failure(e).error = e
    /\ \A v \in ValuesReturned :
           /\ DOMAIN Success(v) = {"ok", "value"}
           /\ Success(v).ok = TRUE
           /\ Success(v).value = v

\* C23: the Result of an action that returned or resolved with one is what
\* the command holds, and what the listeners read, when the execution ends.
C23_Step ==
    /\ Resume /\ calls[Head(microtasks)].outcome.kind = "resolve" =>
           LET c == Head(microtasks)
           IN  /\ result' = calls[c].outcome.res
               /\ \A fn \in ListenerFns :
                      Registered(fn) =>
                          log'[fn][Len(log'[fn])].result = calls[c].outcome.res
    /\ Resume /\ calls[Head(microtasks)].outcome.kind = "reject" =>
           /\ result'.ok = FALSE
           /\ result'.error = calls[Head(microtasks)].outcome.err

C24_Step ==
    /\ ExecuteStep /\ isDisposed /\ status # "running" =>
           /\ runCount' = runCount + 1
           /\ log' = log
           /\ \/ status' = "running" /\ result' = NULL
              \/ /\ status' = "done"
                 /\ calls'[Len(calls')].how = "throw"
                 /\ result' = ExpectedResult(calls'[Len(calls')].outcome)
    /\ Resume /\ isDisposed =>
           /\ status' = "done"
           /\ result' = ExpectedResult(calls[Head(microtasks)].outcome)
           /\ log' = log
    /\ Dispose => isDisposed'
    /\ isDisposed => isDisposed' /\ ~HasListeners(listeners', isDisposed')

\* C24: a disposed command still executes and no longer notifies.
C24_DisposedCommand == [][C24_Step]_vars

\* A listener heard both notifications of the first execution; the command
\* was disposed, the listener added again, and the second execution has
\* ended with its Result stored and without the listener hearing of it.
C24_Witness ==
    \E fn \in ListenerFns :
        /\ isDisposed
        /\ "addListener" \in inert
        /\ Len(calls) = 2
        /\ Len(HeardFrom(fn, 1)) = 2
        /\ HeardFrom(fn, 2) = <<>>
        /\ Completed(2)
        /\ status = "done"
        /\ result = ExpectedResult(calls[2].outcome)

\* The command was disposed while an action was in flight, and its
\* completion was stored without the listener, which heard it start, hearing
\* of it.
C24_WitnessInFlight ==
    \E fn \in ListenerFns :
        /\ isDisposed
        /\ Len(calls) = 1
        /\ calls[1].how = "promise"
        /\ Completed(1)
        /\ Len(HeardFrom(fn, 1)) = 1
        /\ fn \in calls[1].atRunning
        /\ calls[1].atDone = {}
        /\ status = "done"
        /\ result = ExpectedResult(calls[1].outcome)

\* ---------------------------------------------------------------- claim C25

\* The listenables the redraw callback is registered on.
RedrawnBy == {x \in Listenables : HasListener(notifiers[x].listeners, Rerender)}

\* C25 as stated: while the component is mounted the redraw callback is
\* registered on exactly the listenable of the latest render, and after
\* unmount on none. Fails when that listenable is disposed: dispose() clears
\* its listeners and addListener on it registers nothing.
C25_OnBound ==
    RedrawnBy = IF hook.mounted THEN {hook.bound} ELSE {}

\* C25: while the component is mounted the redraw callback is registered on
\* the listenable of the latest render unless that listenable is disposed,
\* and on no other listenable; after unmount it is registered on none, and a
\* listenable nobody else listens to reports hasListeners = false.
C25_OnBoundUnlessDisposed ==
    /\ RedrawnBy = IF hook.mounted /\ ~notifiers[hook.bound].isDisposed
                   THEN {hook.bound}
                   ELSE {}
    /\ \A x \in Listenables :
        ~hook.mounted /\ ~HasListener(notifiers[x].listeners, Other)
            => ~HasListeners(notifiers[x].listeners, notifiers[x].isDisposed)

\* C25, the unmount: from every mounted state, the listenable of the effect
\* in force disposed or not, the unmount ends with the component unmounted
\* and changes nothing but the registration of the redraw callback.
C25_Step ==
    [][hook.mounted /\ ~hook'.mounted =>
        \A x \in Listenables :
            /\ notifiers'[x].isDisposed = notifiers[x].isDisposed
            /\ notifiers'[x].listeners
                 = MapDelete(notifiers[x].listeners, Rerender)]_vars

C25_Resubscribes == []C25_OnBoundUnlessDisposed /\ C25_Step

\* The component was rendered with one listenable, then with the other: the
\* redraw callback left the first, where another listener stays, and is on
\* the second.
C25_Witness ==
    /\ hook.mounted
    /\ hook.effects = 2
    /\ hook.bound = "second"
    /\ notifiers["first"].listeners = <<[fn |-> Other, once |-> FALSE]>>
    /\ RedrawnBy = {"second"}

\* The component unmounted after the listenable it was bound to was disposed.
C25_WitnessDisposed ==
    /\ ~hook.mounted
    /\ hook.effects = 1
    /\ notifiers["first"].isDisposed
    /\ ~notifiers["second"].isDisposed
    /\ hook.redraws = 1

\* ---------------------------------------------------------------- claim C26

\* The instance the latest call of the hook returned is not disposed and has
\* the redraw callback registered.
ShownIsLive ==
    /\ vm.shown # 0
    /\ ~instances[vm.shown].isDisposed
    /\ HasListener(instances[vm.shown].listeners, Rerender)

\* C26 as stated: whenever the component is mounted and its effects have run,
\* the instance the hook returned is not disposed and has the redraw callback
\* registered. Fails in strict mode between the replayed effect and the redraw
\* it asks for: the hook last returned the instance the cleanup disposed.
C26_LiveWhenMounted ==
    vm.phase = "mounted" /\ (vm.strict => vm.remounted) => ShownIsLive

\* C26: whenever the component is mounted, its effects have run (the strict
\* mode cleanup and replay included) and no redraw is pending, the instance
\* the hook returned is not disposed and has the redraw callback registered;
\* whenever the effect is in force the instance in ref.current is so.
C26_Live ==
    /\ vm.phase = "mounted" /\ (vm.strict => vm.remounted) /\ ~vm.pending
        => ShownIsLive
    /\ vm.phase = "mounted"
        => /\ vm.ref # 0
           /\ vm.live = vm.ref
           /\ ~instances[vm.ref].isDisposed
           /\ HasListener(instances[vm.ref].listeners, Rerender)

\* C26, after the unmount: the instance the component held, and every other
\* instance its hook constructed, is disposed and has no listeners.
C26_Disposed ==
    vm.phase = "unmounted" =>
        /\ vm.shown # 0
        /\ \A i \in 1..Len(instances) :
            /\ instances[i].isDisposed
            /\ instances[i].listeners = <<>>
            /\ ~HasListeners(instances[i].listeners, instances[i].isDisposed)

\* C26, strict mode: the effect replayed after the cleanup finds ref.current
\* null, constructs a new instance, and asks for the redraw that returns it.
C26_Step ==
    [][vm.phase = "cleaned" /\ vm'.phase = "mounted" =>
        /\ vm'.ref = Len(instances) + 1
        /\ vm'.pending
        /\ instances[vm.shown].isDisposed
        /\ Len(instances') = Len(instances) + 1]_vars

C26_ViewModel == [](C26_Live /\ C26_Disposed) /\ C26_Step

\* Strict mode: the first instance was disposed by the cleanup, the replayed
\* effect constructed a second one, and the redraw has returned it.
C26_Witness ==
    /\ vm.phase = "mounted"
    /\ vm.strict
    /\ vm.remounted
    /\ ~vm.pending
    /\ vm.shown = 2
    /\ instances[1].isDisposed
    /\ ShownIsLive

\* The component has unmounted in strict mode.
C26_WitnessUnmounted ==
    /\ vm.phase = "unmounted"
    /\ vm.strict
    /\ Len(instances) = 2

\* ---------------------------------------------------------------- claim C27

\* What the listener recorded at the notifications of execute() call c.
SnapshotsOf(c) == SelectSeq(snapshots, LAMBDA s : s.src = c)

\* The notifications of a call that succeeds, and of one that fails with e.
ThreeOf(c) ==
    <<[src |-> c, running |-> TRUE, completed |-> FALSE, error |-> NoError],
      [src |-> c, running |-> TRUE, completed |-> TRUE, error |-> NoError],
      [src |-> c, running |-> FALSE, completed |-> TRUE, error |-> NoError]>>

TwoOf(c, e) ==
    <<[src |-> c, running |-> TRUE, completed |-> FALSE, error |-> NoError],
      [src |-> c, running |-> FALSE, completed |-> FALSE, error |-> e]>>

\* C27: every execute() call made while the command is not running and run
\* to its end has fired exactly the three notifications (true, false, null),
\* (true, true, null), (false, true, null) when its action succeeded, and
\* exactly the two (true, false, null), (false, false, e) when it failed
\* with e. Fails when clear() is called while the action is awaited.
C27_Snapshots ==
    \A c \in 1..Len(runs) :
        runs[c].how = "run" /\ runs[c].phase = "ended" =>
            SnapshotsOf(c) = IF runs[c].action = "fulfils"
                             THEN ThreeOf(c)
                             ELSE TwoOf(c, Errors[c])

\* C27 holds of the calls during whose await nobody called clear() and no
\* other call got past the guard.
C27_SnapshotsUndisturbed ==
    \A c \in 1..Len(runs) :
        runs[c].how = "run" /\ runs[c].phase = "ended" /\ ~runs[c].disturbed =>
            SnapshotsOf(c) = IF runs[c].action = "fulfils"
                             THEN ThreeOf(c)
                             ELSE TwoOf(c, Errors[c])

\* C27, clear(): the three fields are false, false, null after it.
C27_Clear ==
    [][runs' = runs /\ ops' # ops /\ snapshots' = snapshots /\ flags' # flags
        => flags' = Cleared]_vars

\* A call ended with three notifications and another with two.
C27_Witness ==
    \E c, d \in 1..Len(runs) :
        /\ SnapshotsOf(c) = ThreeOf(c)
        /\ SnapshotsOf(d) = TwoOf(d, Errors[d])

\* A call that was cleared during its await ended with its second
\* notification showing running = false.
C27_WitnessCleared ==
    \E c \in 1..Len(runs) :
        /\ runs[c].phase = "ended"
        /\ runs[c].action = "fulfils"
        /\ Len(SnapshotsOf(c)) = 3
        /\ ~SnapshotsOf(c)[2].running
        /\ SnapshotsOf(c)[2].completed

\* ---------------------------------------------------------------- claim C28

\* Some listener body adds a listener.
BodiesAdd ==
    \E fn \in DispatchFns : \E k \in 1..Len(bodies[fn]) :
        bodies[fn][k].call = "add"

\* C28: whatever the listener bodies add to or remove from the Map during the
\* pass, notifyListeners over a snapshot invokes the same listeners in the
\* same order as the source's notifyListeners over the live Map, and leaves
\* the same Map. Fails when a body adds a listener: the live Map iterator
\* reaches an entry added during the pass, and reaches a second time a
\* listener that was removed and added again after its turn.
C28_SameAsSnapshot ==
    compared # NoOutcome =>
        /\ compared.live.returned
        /\ compared.live.invoked = compared.snapshot.invoked
        /\ compared.live.listeners = compared.snapshot.listeners

\* C28 holds of the passes during which listeners are removed and none is
\* added.
C28_SameWhenRemoving ==
    compared # NoOutcome /\ ~BodiesAdd =>
        /\ compared.live.returned
        /\ compared.live.invoked = compared.snapshot.invoked
        /\ compared.live.listeners = compared.snapshot.listeners

\* A listener that removes itself and adds itself again: the source's pass
\* does not return, the pass over a snapshot invokes it once.
C28_WitnessNoReturn ==
    /\ compared # NoOutcome
    /\ registry = <<[fn |-> "l1", once |-> FALSE]>>
    /\ bodies["l1"] = <<[call |-> "remove", fn |-> "l1", once |-> FALSE],
                        [call |-> "add", fn |-> "l1", once |-> FALSE]>>
    /\ ~compared.live.returned
    /\ compared.snapshot.invoked = <<"l1">>

\* A listener adds another one: the source's pass invokes the new one, the
\* pass over a snapshot does not.
C28_WitnessAdded ==
    /\ compared # NoOutcome
    /\ registry = <<[fn |-> "l1", once |-> FALSE]>>
    /\ compared.live.returned
    /\ compared.live.invoked = <<"l1", "l2">>
    /\ compared.snapshot.invoked = <<"l1">>

\* Listeners were removed during the pass and both passes did the same.
C28_WitnessRemoved ==
    /\ compared # NoOutcome
    /\ ~BodiesAdd
    /\ Len(registry) = 2
    /\ compared.live.invoked = <<registry[1].fn>>
    /\ compared.snapshot = compared.live

\* ---------------------------------------------------------------- claim C29

\* The listeners whose bodies are running, the innermost apart.
Running(st) == {st[k].cur : k \in 1..Len(st) - 1}

\* C29: a listener read from the Map with once is not invoked when it has
\* been invoked since its latest addListener, whoever calls notifyListeners
\* and from wherever. Fails when notifyListeners is called while the body of
\* the once listener is running: the listener is deleted from the Map only
\* after its body has returned, so the inner pass finds it registered.
C29_OnceAtMostOnce ==
    [][Invoke /\ Top'.once => Top'.cur \notin spent]_vars

\* C29 holds of every once listener whose body is not running: a second
\* invocation since the registration happens only inside the first.
C29_TwiceOnlyInside ==
    [][Invoke /\ Top'.once /\ Top'.cur \in spent
        => Top'.cur \in Running(stack')]_vars

\* The body of a once listener called notifyListeners and the inner pass is
\* invoking the same listener.
C29_WitnessTwice ==
    /\ Len(stack) = 2
    /\ stack[1].once /\ stack[2].once
    /\ stack[1].cur # "none"
    /\ stack[1].cur = stack[2].cur
    /\ TimesIn(stack[1].pass, stack[1].cur) = 1
    /\ Len(invoked) = 2

\* ---------------------------------------------------------------- claim C30

\* The entries of Map ls that are not listener fn's, in order.
Others(ls, fn) == SelectSeq(ls, LAMBDA e : e.fn # fn)

\* The entries the iterator of frame f has still to take from Map ls.
Ahead(ls, f) == SubSeq(ls, f.pos + 1, Len(ls))

\* C30: removeListener(l) on a notifier that is not disposed leaves every
\* other listener registered, with its options and in the same order, in the
\* Map and in what each pass in progress has still to invoke, and leaves l
\* unregistered; when l is not registered the Map and the passes in progress
\* are as they were. The call returns in every state it is made in.
C30_Step ==
    \A fn \in NotifierFns :
        RemoveListener(fn) /\ ~isDisposed =>
            /\ listeners' = Others(listeners, fn)
            /\ ~HasListener(listeners', fn)
            /\ isDisposed' = isDisposed
            /\ Len(stack') = Len(stack)
            /\ \A k \in 1..Len(stack) :
                   /\ Ahead(listeners', stack'[k]) = Others(Ahead(listeners, stack[k]), fn)
                   /\ stack'[k].cur = stack[k].cur
            /\ ~HasListener(listeners, fn) =>
                   /\ listeners' = listeners
                   /\ stack' = stack
                   /\ passes' = passes

C30_RemovesOnlyThat == [][C30_Step]_vars

\* During a pass over three listeners one that was registered without once
\* has been removed: the other two are in the Map as the pass found them.
C30_Witness ==
    \E p \in PassIds :
        /\ ~passes[p].ended
        /\ Len(passes[p].began) = 3
        /\ passes[p].added = {}
        /\ \E i \in 1..3 :
               /\ ~passes[p].began[i].once
               /\ passes[p].gone = {passes[p].began[i].fn}
               /\ listeners = Others(passes[p].began, passes[p].began[i].fn)
        /\ ~isDisposed

\* ---------------------------------------------------------------- claim C31

\* C31: no listener invocation starts on a disposed notifier, and dispose()
\* leaves nothing for the passes in progress to take: the Map is empty and
\* stays so, every iterator is at its end.
C31_Step ==
    /\ Invoke => ~isDisposed /\ ~isDisposed'
    /\ Dispose =>
           /\ isDisposed'
           /\ listeners' = <<>>
           /\ \A k \in 1..Len(stack') : Ahead(listeners', stack'[k]) = <<>>
    /\ isDisposed => isDisposed' /\ listeners' = <<>>

\* C31: a pass during which dispose() was called has invoked nothing since:
\* the listeners it had still to visit are not invoked.
C31_NoInvocationAfterDispose ==
    [](isDisposed => listeners = <<>>) /\ [][C31_Step]_vars

\* A pass that began with three listeners has returned after the first one
\* called dispose(): the other two were not invoked.
C31_Witness ==
    \E p \in PassIds :
        /\ isDisposed
        /\ passes[p].ended
        /\ Len(passes[p].began) = 3
        /\ InvokedIn(p) = <<passes[p].began[1].fn>>
        /\ passes[p].added = {}
        /\ {passes[p].began[2].fn, passes[p].began[3].fn} \subseteq passes[p].gone

\* ---------------------------------------------------------------- claim C32

\* The entries of Map ls whose options do not say once, in order.
Lasting(ls) == SelectSeq(ls, LAMBDA e : ~e.once)

\* C32: when a pass returns during which no listener called addListener,
\* removeListener or dispose (listeners may have called notifyListeners), the
\* Map is the one the pass began with minus the entries registered with
\* once, options and order kept, and the notifier is not disposed, as it was
\* not when the pass began.
C32_Step ==
    EndPass /\ ~passes[Top.pass].touched =>
        /\ listeners' = Lasting(passes[Top.pass].began)
        /\ ~isDisposed /\ ~isDisposed'

C32_OnlyOnceRemoved == [][C32_Step]_vars

\* A pass over a once listener and two others has returned; a listener
\* called notifyListeners during it, none called anything else.
C32_Witness ==
    \E p, q \in PassIds :
        /\ p < q
        /\ passes[p].ended /\ passes[q].ended
        /\ ~passes[p].touched
        /\ passes[q].began # passes[p].began
        /\ Len(passes[p].began) = 3
        /\ Len(Lasting(passes[p].began)) = 2
        /\ InvokedIn(q) # <<>>
        /\ \E i \in 1..Len(invoked) : invoked[i].pass = p /\
               \E j \in 1..i : invoked[j].pass = q
        /\ listeners = Lasting(passes[p].began)

\* ---------------------------------------------------------------- claim C33

\* The Results an execution can store: what an action returns or resolves
\* with, and the Failure of what it throws or rejects with.
ResultsOfActions ==
    {b.res : b \in {x \in Behaviours : x.kind = "return"}}
        \cup {Failure(b.err) : b \in {x \in Behaviours : x.kind = "throw"}}
        \cup {t.res : t \in {x \in Settlements : x.kind = "resolve"}}
        \cup {Failure(t.err) : t \in {x \in Settlements : x.kind = "reject"}}

\* C33: in every state between two steps, and in everything a listener has
\* observed, the status is "done" exactly when the result is not null: "idle"
\* and "running" go with null, "done" with a Result.
C33_DoneIffResult ==
    /\ status = "done" <=> result # NULL
    /\ status \in {"idle", "running"} => result = NULL
    /\ status = "done" => result \in ResultsOfActions
    /\ \A fn \in ListenerFns : \A i \in 1..Len(log[fn]) :
           log[fn][i].status = "done" <=> log[fn][i].result # NULL

\* An execution ended while another, let through after clear(), is still in
\* flight, and a listener observed the clear and the end.
C33_Witness ==
    /\ status = "done"
    /\ result # NULL
    /\ \E c, d \in CallIds : c < d /\ Completed(c) /\ InFlight(d)
    /\ \E fn \in ListenerFns :
           /\ \E i \in 1..Len(log[fn]) : log[fn][i].src = 0
           /\ \E i \in 1..Len(log[fn]) : log[fn][i].status = "done"

\* ---------------------------------------------------------------- claim C34

\* C34: the status is written only along idle -> running, done -> running,
\* running -> done and, by clear(), anything -> idle. execute() past the
\* guard finds idle or done and writes running (then done in the same job
\* when the action throws); the resumption of an execution writes done over
\* running. Fails when clear() was called during the await: the resumption
\* writes done over idle.
C34_Transitions ==
    [][/\ ExecuteStep /\ status # "running" =>
              status \in {"idle", "done"} /\ status' \in {"running", "done"}
       /\ Resume /\ status' # status => status = "running" /\ status' = "done"
       /\ Clear => status' = "idle"
       /\ status' # status => ExecuteStep \/ Resume \/ Clear]_vars

\* C34 holds of the resumptions that find the status their execute() left:
\* without a clear() during the await the status goes running -> done.
C34_TransitionsUncleared ==
    [][/\ ExecuteStep /\ status # "running" =>
              status \in {"idle", "done"} /\ status' \in {"running", "done"}
       /\ Resume /\ status' # status /\ status # "idle" =>
              status = "running" /\ status' = "done"
       /\ Clear => status' = "idle"]_vars

\* ---------------------------------------------------------------- claim C35

\* C35, the step: the resumption of an execution whose action has settled
\* writes done and notifies every registered listener, which reads done.
C35_Step ==
    Resume =>
        /\ status' = "done"
        /\ calls'[Head(microtasks)].phase = "returned"
        /\ \A fn \in Audience(listeners, isDisposed) :
               /\ Len(log'[fn]) = Len(log[fn]) + 1
               /\ log'[fn][Len(log'[fn])].src = Head(microtasks)
               /\ log'[fn][Len(log'[fn])].status = "done"

\* C35: every execution whose action has settled (its continuation is
\* queued) runs to its end, and the status is "done" then, whatever the
\* status was made meanwhile: the command is not left running by an action
\* that has settled.
C35_SettledLeadsToDone ==
    /\ \A c \in 1..MaxOps :
           (c \in CallIds /\ calls[c].phase = "queued")
               ~> (c \in CallIds /\ Completed(c) /\ status = "done")
    /\ [][C35_Step]_vars

\* An asynchronous execution has ended, its done notification was heard, and
\* the execute() after it found done and invoked its action.
C35_Witness ==
    \E c, d \in CallIds :
        /\ c < d
        /\ calls[c].how = "promise"
        /\ Completed(c)
        /\ \E fn \in ListenerFns : Len(HeardFrom(fn, c)) = 2
        /\ calls[d].found = "done"
        /\ calls[d].how # "guard"
        /\ Completed(d)
        /\ status = "done"

\* ---------------------------------------------------------------- claim C36

\* C36: the value a subscriber is called with is the value the observable
\* holds at that call, whichever assignment started the pass and whatever
\* was assigned since.
C36_Step ==
    Deliver =>
        /\ Len(delivered') = Len(delivered) + 1
        /\ delivered'[Len(delivered')].value = value
        /\ value' = value

C36_NoStaleValue == [][C36_Step]_vars

\* A subscriber assigned the value during a pass, and a subscriber the pass
\* called afterwards was passed that value, not the one that started it.
C36_Witness ==
    \E i \in 1..Len(delivered) : \E j, k \in 1..Len(sets) :
        /\ sets[j].pass = delivered[i].pass
        /\ sets[j].value # delivered[i].value
        /\ delivered[i].pass \in sets[k].under
        /\ sets[k].value = delivered[i].value
        /\ j < k

\* ---------------------------------------------------------------- claim C37

\* C37: in every state, and at every notification, completed = true goes
\* with error = null. Fails when clear() lets a second execute() past the
\* guard while the first is awaited: one of the two sets completed, the
\* other sets error, and neither resets what the other wrote.
C37_CompletedNoError ==
    /\ flags.completed => flags.error = NoError
    /\ \A i \in 1..Len(snapshots) :
           snapshots[i].completed => snapshots[i].error = NoError

\* C37 holds as long as clear() was not called while an execution was
\* awaited: the guard then keeps the executions apart.
C37_CompletedNoErrorAlone ==
    (\A c \in 1..Len(runs) : ~runs[c].disturbed) => C37_CompletedNoError

\* Two executions overlapped after a clear(): one succeeded, the other
\* failed, and the command reports completed with an error.
C37_WitnessBoth ==
    /\ flags.completed
    /\ flags.error # NoError
    /\ ~flags.running
    /\ \A c \in 1..Len(runs) : runs[c].phase = "ended"

\* C38: for every value v, isSuccess(v) holds exactly when v is an object
\* (typeof "object", not null) whose ok is the boolean true and which has a
\* value property, isFailure(v) exactly when v is an object whose ok is the
\* boolean false and which has an error property; each implies isResult(v);
\* the two are never both true; what Results.Success built satisfies
\* isSuccess and what Results.Failure built satisfies isFailure.
IsObject(v) == v.typeof = "object" /\ ~v.isNull

C38_Predicates ==
    probed.asked =>
        /\ "isSuccess" \in probed.answers <=>
               /\ IsObject(probed.subject)
               /\ "ok" \in DOMAIN probed.subject.props
               /\ probed.subject.props["ok"] = "true"
               /\ "value" \in DOMAIN probed.subject.props
        /\ "isFailure" \in probed.answers <=>
               /\ IsObject(probed.subject)
               /\ "ok" \in DOMAIN probed.subject.props
               /\ probed.subject.props["ok"] = "false"
               /\ "error" \in DOMAIN probed.subject.props
        /\ "isSuccess" \in probed.answers => "isResult" \in probed.answers
        /\ "isFailure" \in probed.answers => "isResult" \in probed.answers
        /\ ~({"isSuccess", "isFailure"} \subseteq probed.answers)
        /\ probed.made = "Success" => "isSuccess" \in probed.answers
        /\ probed.made = "Failure" => "isFailure" \in probed.answers

\* Results.Success(undefined) was asked about and is a success; so was an
\* object with ok = true and no value property, which is a result only.
C38_Witness ==
    /\ probed.asked
    /\ probed.made = "Success"
    /\ probed.subject.props["value"] = "undefined"
    /\ probed.answers = {"isResult", "isSuccess"}

C38_WitnessBare ==
    /\ probed.asked
    /\ IsObject(probed.subject)
    /\ DOMAIN probed.subject.props = {"ok"}
    /\ probed.answers = {"isResult"}

====
